---------------------------- MODULE Spec2Model ----------------------------
(***************************************************************************)
(* netops: the orchestrated device-scraping pipeline.                      *)
(*                                                                         *)
(*   Spec       speed-audit: run_many (orchestrator.py) over the selected  *)
(*              sites with the progress manager (progress.py), followed by *)
(*              the tail of speed_audit.main (workbook, upload).           *)
(***************************************************************************)
EXTENDS Integers, Sequences, FiniteSets, TLC

(***************************************************************************)
(* Bounds of the model.                                                    *)
(***************************************************************************)
NumSites == 3
MaxConcurrency == 2
MaxRows == 1

Max(a, b) == IF a >= b THEN a ELSE b

Range(s) == {s[i] : i \in DOMAIN s}

(***************************************************************************)
(* The selected sites.  Site i carries a one-letter property name whose    *)
(* case alternates and a system family tag.                                *)
(***************************************************************************)
Sites == 1..NumSites

UpperLetters == <<"A", "B", "C", "D", "E", "F">>
LowerLetters == <<"a", "b", "c", "d", "e", "f">>

IsUpper(c) == \E i \in DOMAIN UpperLetters : UpperLetters[i] = c
LetterIndex(c) ==
    IF IsUpper(c) THEN CHOOSE i \in DOMAIN UpperLetters : UpperLetters[i] = c
                  ELSE CHOOSE i \in DOMAIN LowerLetters : LowerLetters[i] = c

\* ord(c) of an ASCII letter
Ord(c) == IF IsUpper(c) THEN 64 + LetterIndex(c) ELSE 96 + LetterIndex(c)

\* str.lower() of a one-letter name
StrLower(c) == IF IsUpper(c) THEN LowerLetters[LetterIndex(c)] ELSE c

SystemTags == <<"ETTP", "CMTS", "GPON", "DSL">>

PropertyOf(i) == IF i % 2 = 1 THEN LowerLetters[((i * 2) % 5) + 1]
                              ELSE UpperLetters[((i * 2) % 5) + 1]

SystemOf(i) == SystemTags[((i - 1) % Len(SystemTags)) + 1]

(***************************************************************************)
(* Tables.  A cell is a sequence of text fragments, so that an f-string is *)
(* the concatenation of its parts.                                         *)
(***************************************************************************)
Cell(s) == <<s>>

ErrorStatus(e) == <<"Error:", " ", e>>

CellContains(cell, frag) == \E i \in DOMAIN cell : cell[i] = frag

\* pd.DataFrame(data, columns=cols)
DataFrame(data, cols) == [columns |-> cols, rows |-> data]

Tail1(table) == SubSeq(table, 2, Len(table))

InfoHeader == <<Cell("Identity"), Cell("Mac/Serial"), Cell("Speed"), Cell("Status")>>
InfoRow(k) == <<Cell("unit"), Cell("mac"), Cell("50 Mbps"), Cell("Active")>>

\* what a scraper's get_info returns when it discovered n sub-entities
InfoTable(n) == <<InfoHeader>> \o [k \in 1..n |-> InfoRow(k)]

\* every scraper's set_config stub
SetConfigTable == << <<Cell("Result")>>, <<Cell("Not Implemented")>> >>

ErrorColumns == <<Cell("Property"), Cell("System"), Cell("Status")>>

ErrorFrame(i, e) ==
    DataFrame(<< ErrorColumns,
                 <<Cell(PropertyOf(i)), Cell(SystemOf(i)), ErrorStatus(e)>> >>,
              ErrorColumns)

NoFrame == DataFrame(<<>>, <<>>)

VARIABLES
    concurrency,    \* run_many's concurrency argument
    show_progress,  \* run_many's show_progress argument
    mode,           \* run_many's mode argument
    sem,            \* free permits of the semaphore
    waiters,        \* tasks queued on the semaphore, FIFO
    pool,           \* SiteProgressManager._pool: sequence of slots
    pc,             \* position of each device task
    sp,             \* the progress object each task holds (0 none, -1 null object)
    system,         \* whether the local `system` of one() is bound
    outcome,        \* what the device's scraper did for the task
    df,             \* the task's result frame
    events,         \* the steps each task has executed, in order
    doneq,          \* finished tasks not yet taken by as_completed
    finished,       \* tasks in the order they finished
    results,        \* run_many's results list
    overall,        \* the overall progress counter
    mainpc,         \* position of speed_audit.main / run_many's loop
    workbook,       \* sheets written by write_workbook, in order
    \* one scraper's get_info (systems/cmts.py, dsl.py, ettp.py, gpon.py)
    sc_kind,        \* the system family of the site
    sc_progress,    \* whether get_info was given a progress object
    sc_pc,          \* position inside get_info
    sc_session,     \* the transport session: "none", "open", "closed"
    sc_items,       \* the sub-entities found by the discovery phase
    sc_i,           \* how many of them the loop has handled
    sc_table,       \* the table built so far (header first)
    sc_raised,      \* the sub-entities whose query raised
    sc_outs,        \* what the device answered for each sub-entity handled
    sc_bar,         \* the progress object's bar: total and n
    \* daily-export (cli/daily_export.py)
    de_args,        \* the command's options
    de_sem,         \* free permits of _run's semaphore
    de_pc,          \* position of each device's _run_one task
    de_doneq,       \* finished tasks not yet taken by as_completed
    de_results,     \* _run's results list
    de_zip,         \* the sites written to the local zip, in order
    de_main,        \* position of daily_export_cli
    de_remote,      \* whether the zip is on the file server
    de_email,       \* the email step: "no", "sent", "failed"
    de_log,         \* the error lines logged by the command's tail
    \* one SSH command (transports/base.py, transports/ssh.py)
    ss_via,         \* how the command is run: "SSHRunner.run" or "ssh_exec"
    ss_client,      \* whether the runner holds a connected client
    ss_cmd,         \* how many commands the caller has issued
    ss_pc,          \* position inside the call
    ss_attempt,     \* the attempt number of retry_async's loop
    ss_delay,       \* the back-off delay, in tenths of a second
    ss_log,         \* what the call has done so far, in order
    ss_out,         \* the outputs returned to the caller, in order
    \* one Telnet session (transports/telnet_simple.py)
    tn_enable,      \* whether an enable pair is configured
    tn_open,        \* whether the runner holds its reader and writer
    tn_temp,        \* whether run is going through a temporary session
    tn_pc,          \* position of the caller and of the session
    tn_prompt,      \* the prompt run reads until
    tn_wire,        \* the reads and writes on the current connection, in order
    tn_cmd,         \* how many commands the caller has issued
    tn_sends,       \* how many times the current command was written
    tn_err,         \* where the current command failed
    tn_out,         \* what each command gave the caller
    \* pick_speed_and_note (systems/gpon.py)
    pk_values,      \* the GEM-port profile values handed to pick_speed_and_note
    pk_pc,          \* whether the function has been applied
    pk_result,      \* what it returned
    \* ETTP modem's speed selection
    qu_simple,      \* add-lines of /queue simple export
    qu_verbose,     \* rules of /queue simple export verbose
    qu_ether,       \* speed= values of /interface ethernet export
    qu_pc,          \* "call", "done"
    qu_row,         \* the modem's Speed and Status
    \* speed comparison of two runs
    cr_prev,        \* rows of the previous run
    cr_curr,        \* rows of the current run
    cr_pc,          \* "call", "done"
    cr_changes,     \* records of changes_df
    \* WireGuard/RADIUS rollout
    ro_args,        \* the options apply, auto_core, restart_core_wg
    ro_core,        \* radius-core: wg tools, sudo -n, and the files present
    ro_existing,    \* each router's items that its find commands report
    ro_pc,          \* position in wg_radius_rollout_cli
    ro_left,        \* routers whose task has not run yet
    ro_core_cmds,   \* commands executed on radius-core, in order
    ro_router_cmds, \* commands executed on each router, in order
    ro_results,     \* each router's RolloutResult.ok
    \* mass-config run mode
    ma_args,        \* run_level, keep_remote_file, concurrency
    ma_access,      \* each site's Access column
    ma_pc,          \* each site's task: "queued", "thread", "returned", "raised"
    ma_sem,         \* free permits of the semaphore
    ma_steps,       \* commands and transfers issued to each site, in order
    ma_uploaded,    \* the upload to the site has completed
    ma_result,      \* what each site's task returned
    ma_finished,    \* finished tasks that as_completed has yet to yield
    ma_results,     \* the results list of _mode_run
    ma_main,        \* position of _mode_run
    \* call-recording cleanup run
    cl_args,        \* the options dry_run and no_retention
    cl_tree,        \* the remote file tree
    cl_tree0,       \* the remote file tree before the run
    cl_pc,          \* position in main past the lock
    cl_todo,        \* files of the source listing not yet handled
    cl_ops,         \* kinds of mutating SFTP operations performed
    cl_counts,      \* moved, skipped and deleted counters
    \* single-instance lock
    lk_file,        \* the lock file: 0 when absent, else the instance that wrote it
    lk_pc,          \* each instance's position in main
    lk_fd,          \* each instance's lock.fd is set
    lk_sftp,        \* SFTP operations each instance has performed
    lk_exit,        \* each instance's exit code, -1 while running
    \* Telnet prompt auto-detection (transports/telnet_async.py)
    dp_pc,          \* position in open / exec
    dp_nudges,      \* bare newlines written by _detect_prompt
    dp_reads,       \* readline calls made by _detect_prompt
    dp_buf,         \* the lines received by _detect_prompt, in order
    dp_prompt,      \* prompt_bytes, the empty string standing for None
    dp_exec,        \* how each later command read its output
    \* run_many_simple (orchestrator.py)
    rs_args,        \* concurrency, show_progress and the signature of the worker
    rs_sem,         \* free permits of the semaphore
    rs_pool,        \* the slots of the progress manager
    rs_pc,          \* position of each item task
    rs_sp,          \* the progress object each task holds
    rs_runs,        \* the runs of the worker body for each item, in order
    rs_ret,         \* what one(item) returned
    rs_doneq,       \* finished tasks that as_completed has yet to yield
    rs_results,     \* the results list
    rs_main,        \* position of run_many_simple
    \* log and hotspot pull of daily-export (cli/daily_export.py)
    dc_args,        \* delete_remote_logs and whether the device has the backup role
    dc_files,       \* the files on the device
    dc_pc,          \* position in _collect_one_blocking past the export
    dc_names,       \* the names sftp.listdir gave
    dc_todo,        \* names the current loop has yet to handle
    dc_read,        \* the files whose content was read
    dc_present,     \* present_for_delete
    dc_removed      \* the files removed from the device

vars == <<concurrency, show_progress, mode, sem, waiters, pool, pc, sp, system,
          outcome, df, events, doneq, finished, results, overall, mainpc,
          workbook,
          sc_kind, sc_progress, sc_pc, sc_session, sc_items, sc_i, sc_table,
          sc_raised, sc_outs, sc_bar,
          de_args, de_sem, de_pc, de_doneq, de_results, de_zip, de_main,
          de_remote, de_email, de_log,
          ss_via, ss_client, ss_cmd, ss_pc, ss_attempt, ss_delay, ss_log, ss_out,
          tn_enable, tn_open, tn_temp, tn_pc, tn_prompt, tn_wire, tn_cmd, tn_sends, tn_err, tn_out,
          pk_values, pk_pc, pk_result,
          qu_simple, qu_verbose, qu_ether, qu_pc, qu_row,
          cr_prev, cr_curr, cr_pc, cr_changes,
          ro_args, ro_core, ro_existing, ro_pc, ro_left, ro_core_cmds, ro_router_cmds, ro_results,
          ma_args, ma_access, ma_pc, ma_sem, ma_steps, ma_uploaded, ma_result, ma_finished, ma_results, ma_main,
          cl_args, cl_tree, cl_tree0, cl_pc, cl_todo, cl_ops, cl_counts,
          lk_file, lk_pc, lk_fd, lk_sftp, lk_exit,
          dp_pc, dp_nudges, dp_reads, dp_buf, dp_prompt, dp_exec,
          rs_args, rs_sem, rs_pool, rs_pc, rs_sp, rs_runs, rs_ret, rs_doneq, rs_results, rs_main,
          dc_args, dc_files, dc_pc, dc_names, dc_todo, dc_read, dc_present, dc_removed>>

dailyVars == <<de_args, de_sem, de_pc, de_doneq, de_results, de_zip, de_main,
               de_remote, de_email, de_log>>

scrapeVars == <<sc_kind, sc_progress, sc_pc, sc_session, sc_items, sc_i,
                sc_table, sc_raised, sc_outs, sc_bar>>

sshVars == <<ss_via, ss_client, ss_cmd, ss_pc, ss_attempt, ss_delay, ss_log, ss_out>>

telVars == <<tn_enable, tn_open, tn_temp, tn_pc, tn_prompt, tn_wire, tn_cmd, tn_sends, tn_err, tn_out>>
pickVars == <<pk_values, pk_pc, pk_result>>
queueVars == <<qu_simple, qu_verbose, qu_ether, qu_pc, qu_row>>
cmpVars == <<cr_prev, cr_curr, cr_pc, cr_changes>>
rollVars == <<ro_args, ro_core, ro_existing, ro_pc, ro_left, ro_core_cmds, ro_router_cmds, ro_results>>
massVars == <<ma_args, ma_access, ma_pc, ma_sem, ma_steps, ma_uploaded, ma_result, ma_finished, ma_results, ma_main>>
cleanVars == <<cl_args, cl_tree, cl_tree0, cl_pc, cl_todo, cl_ops, cl_counts>>
lockVars == <<lk_file, lk_pc, lk_fd, lk_sftp, lk_exit>>
detVars == <<dp_pc, dp_nudges, dp_reads, dp_buf, dp_prompt, dp_exec>>
simpleVars == <<rs_args, rs_sem, rs_pool, rs_pc, rs_sp, rs_runs, rs_ret, rs_doneq, rs_results, rs_main>>
colVars == <<dc_args, dc_files, dc_pc, dc_names, dc_todo, dc_read, dc_present, dc_removed>>
\* the state of the transports and one-shot tools
extVars == <<sshVars, telVars, pickVars, queueVars, cmpVars, rollVars, massVars, cleanVars, lockVars, detVars, simpleVars, colVars>>

\* what the actions of run_many and speed_audit.main leave alone
notRun == <<scrapeVars, dailyVars, extVars>>

runVars == <<sem, waiters, pool, pc, sp, system, outcome, df, events, doneq,
             finished, results, overall>>

argVars == <<concurrency, show_progress, mode>>

(***************************************************************************)
(* asyncio.Semaphore(max(1, concurrency)) and                              *)
(* SiteProgressManager(pool_size=concurrency, enabled=show_progress)       *)
(***************************************************************************)
SemSizeOneMore(c) == Max(1, c) + 1

SemSize(c) == Max(1, c)

\* the pool is one slot short of the semaphore
PoolSizeOneLess(c) == Max(1, c - 1)

PoolSize(c) == Max(1, c)

IdleSlot == [busy |-> FALSE, desc |-> "Idle", postfix |-> ""]

NewPool(c, enabled) == IF enabled THEN [k \in 1..PoolSize(c) |-> IdleSlot] ELSE <<>>

NullObject == -1

\* what the scraper of a task did: raised (where, with which message) or
\* returned a table with `rows` data rows
NoOutcome == [kind |-> "none", at |-> "", exc |-> "", rows |-> 0]
Raised(at, e) == [kind |-> "raised", at |-> at, exc |-> e, rows |-> 0]
Returned(at, n) == [kind |-> "returned", at |-> at, exc |-> "", rows |-> n]

NoBar == [total |-> 0, n |-> 0]

\* no scraper under study
ScrapeIdle ==
    /\ sc_kind = "none"
    /\ sc_progress = FALSE
    /\ sc_pc = "idle"
    /\ sc_session = "none"
    /\ sc_items = <<>>
    /\ sc_i = 0
    /\ sc_table = <<>>
    /\ sc_raised = {}
    /\ sc_outs = <<>>
    /\ sc_bar = NoBar

\* no daily-export under study
DailyIdle ==
    /\ de_args = [concurrency |-> 1, testing |-> FALSE, keep |-> FALSE]
    /\ de_sem = 0
    /\ de_pc = <<>>
    /\ de_doneq = <<>>
    /\ de_results = <<>>
    /\ de_zip = <<>>
    /\ de_main = "idle"
    /\ de_remote = FALSE
    /\ de_email = "no"
    /\ de_log = <<>>

\* no one SSH command (transports/base.py, transports/ssh.py) under study
SshIdle ==
    /\ ss_via = "none"
    /\ ss_client = FALSE
    /\ ss_cmd = 0
    /\ ss_pc = "idle"
    /\ ss_attempt = 0
    /\ ss_delay = 0
    /\ ss_log = <<>>
    /\ ss_out = <<>>

\* no one Telnet session (transports/telnet_simple.py) under study
TelIdle ==
    /\ tn_enable = FALSE
    /\ tn_open = FALSE
    /\ tn_temp = FALSE
    /\ tn_pc = "off"
    /\ tn_prompt = "> "
    /\ tn_wire = <<>>
    /\ tn_cmd = 0
    /\ tn_sends = 0
    /\ tn_err = ""
    /\ tn_out = <<>>

\* no pick_speed_and_note (systems/gpon.py) under study
PickIdle ==
    /\ pk_values = <<>>
    /\ pk_pc = "off"
    /\ pk_result = [none |-> TRUE, speed |-> "", note |-> ""]

\* no ETTP modem's speed selection under study
QueueIdle ==
    /\ qu_simple = <<>>
    /\ qu_verbose = <<>>
    /\ qu_ether = <<>>
    /\ qu_pc = "idle"
    /\ qu_row = [speed |-> "", status |-> ""]

\* no speed comparison of two runs under study
CmpIdle ==
    /\ cr_prev = <<>>
    /\ cr_curr = <<>>
    /\ cr_pc = "idle"
    /\ cr_changes = <<>>

\* no WireGuard/RADIUS rollout under study
RollIdle ==
    /\ ro_args = [apply |-> FALSE, auto_core |-> FALSE, restart |-> FALSE]
    /\ ro_core = [tools |-> FALSE, sudo |-> FALSE, pub |-> FALSE, key |-> FALSE, conf |-> FALSE]
    /\ ro_existing = <<>>
    /\ ro_pc = "idle"
    /\ ro_left = {}
    /\ ro_core_cmds = <<>>
    /\ ro_router_cmds = <<>>
    /\ ro_results = <<>>

\* no mass-config run mode under study
MassIdle ==
    /\ ma_args = [run_level |-> "dry-run", keep |-> FALSE, concurrency |-> 0]
    /\ ma_access = <<>>
    /\ ma_pc = <<>>
    /\ ma_sem = 0
    /\ ma_steps = <<>>
    /\ ma_uploaded = <<>>
    /\ ma_result = <<>>
    /\ ma_finished = <<>>
    /\ ma_results = <<>>
    /\ ma_main = "idle"

\* no call-recording cleanup run under study
CleanIdle ==
    /\ cl_args = [dry_run |-> FALSE, no_retention |-> FALSE]
    /\ cl_tree = <<>>
    /\ cl_tree0 = <<>>
    /\ cl_pc = "idle"
    /\ cl_todo = <<>>
    /\ cl_ops = {}
    /\ cl_counts = [moved |-> 0, skipped |-> 0, deleted |-> 0]

\* no single-instance lock under study
LockIdle ==
    /\ lk_file = 0
    /\ lk_pc = <<>>
    /\ lk_fd = <<>>
    /\ lk_sftp = <<>>
    /\ lk_exit = <<>>

\* no Telnet prompt auto-detection (transports/telnet_async.py) under study
DetIdle ==
    /\ dp_pc = "off"
    /\ dp_nudges = 0
    /\ dp_reads = 0
    /\ dp_buf = <<>>
    /\ dp_prompt = <<>>
    /\ dp_exec = <<>>

\* no run_many_simple (orchestrator.py) under study
SimpleIdle ==
    /\ rs_args = [concurrency |-> 1, show_progress |-> FALSE, worker |-> "item"]
    /\ rs_sem = 0
    /\ rs_pool = <<>>
    /\ rs_pc = <<>>
    /\ rs_sp = <<>>
    /\ rs_runs = <<>>
    /\ rs_ret = <<>>
    /\ rs_doneq = <<>>
    /\ rs_results = <<>>
    /\ rs_main = "idle"

\* no log and hotspot pull of daily-export (cli/daily_export.py) under study
ColIdle ==
    /\ dc_args = [delete_remote_logs |-> FALSE, backup |-> FALSE]
    /\ dc_files = {}
    /\ dc_pc = "idle"
    /\ dc_names = {}
    /\ dc_todo = <<>>
    /\ dc_read = {}
    /\ dc_present = <<>>
    /\ dc_removed = {}

ExtIdle ==
    /\ SshIdle
    /\ TelIdle
    /\ PickIdle
    /\ QueueIdle
    /\ CmpIdle
    /\ RollIdle
    /\ MassIdle
    /\ CleanIdle
    /\ LockIdle
    /\ DetIdle
    /\ SimpleIdle
    /\ ColIdle

Init ==
    /\ ScrapeIdle
    /\ DailyIdle
    /\ ExtIdle
    /\ concurrency \in 0..MaxConcurrency
    /\ show_progress \in BOOLEAN
    /\ mode \in {"get_info", "set_config"}
    /\ sem = SemSize(concurrency)
    /\ waiters = <<>>
    /\ pool = NewPool(concurrency, show_progress)
    /\ pc = [t \in Sites |-> "new"]
    /\ sp = [t \in Sites |-> 0]
    /\ system = [t \in Sites |-> "unbound"]
    /\ outcome = [t \in Sites |-> NoOutcome]
    /\ df = [t \in Sites |-> NoFrame]
    /\ events = [t \in Sites |-> <<>>]
    /\ doneq = <<>>
    /\ finished = <<>>
    /\ results = <<>>
    /\ overall = 0
    /\ mainpc = "run"
    /\ workbook = <<>>


(***************************************************************************)
(* What the environment lets a device's scraper do.                        *)
(*   system_factory: only ETTPSystem.__init__ resolves credentials and can *)
(*   raise.  GPONSystem.get_info calls the two-argument resolve_env with   *)
(*   one argument and raises before it opens a session.                    *)
(***************************************************************************)
FactoryOutcomes(i) ==
    IF SystemOf(i) = "ETTP" THEN {"bound", "Missing environment variables"}
                            ELSE {"bound"}

DiscoveryOutcomes(i) ==
    IF SystemOf(i) = "GPON" THEN {"TypeError"}
                            ELSE {"discovered", "Connection failed"}

(***************************************************************************)
(* SiteProgressManager.acquire: the first idle slot of the pool, scanned   *)
(* under the lock; 0 when every slot is busy.                              *)
(***************************************************************************)
\* the scan takes the first slot whether or not it is busy
FirstSlot(p) == IF p # <<>> THEN 1 ELSE 0

FirstIdle(p) ==
    IF \E k \in DOMAIN p : ~p[k].busy
    THEN CHOOSE k \in DOMAIN p : ~p[k].busy /\ \A j \in 1..(k - 1) : p[j].busy
    ELSE 0

\* SiteProgress.done then SiteProgressManager.release on the task's object
Released(p, s) == IF s > 0 THEN [p EXCEPT ![s] = IdleSlot] ELSE p

\* SiteProgress.start on the task's object
Started(p, s, label) ==
    IF s > 0 THEN [p EXCEPT ![s] = [busy |-> TRUE, desc |-> label, postfix |-> ""]]
             ELSE p

(***************************************************************************)
(* one(site): `async with sem`                                             *)
(***************************************************************************)
Start(t) ==
    /\ mainpc = "run"
    /\ pc[t] = "new"
    /\ IF sem > 0 /\ waiters = <<>>
       THEN /\ sem' = sem - 1
            /\ pc' = [pc EXCEPT ![t] = "acquire"]
            /\ UNCHANGED waiters
       ELSE /\ waiters' = Append(waiters, t)
            /\ pc' = [pc EXCEPT ![t] = "waiting"]
            /\ UNCHANGED sem
    /\ UNCHANGED <<argVars, notRun, pool, sp, system, outcome, df, events, doneq,
                   finished, results, overall, mainpc, workbook>>

\* a released permit goes to the longest-waiting task
Grant(t) ==
    /\ pc[t] = "waiting"
    /\ waiters # <<>>
    /\ Head(waiters) = t
    /\ sem > 0
    /\ sem' = sem - 1
    /\ waiters' = Tail(waiters)
    /\ pc' = [pc EXCEPT ![t] = "acquire"]
    /\ UNCHANGED <<argVars, notRun, pool, sp, system, outcome, df, events, doneq,
                   finished, results, overall, mainpc, workbook>>

(***************************************************************************)
(* The except and finally blocks of one(): the error frame, sp.done,       *)
(* mgr.release and the start of the best-effort close, for the task whose  *)
(* progress object is s.  Nothing in between suspends, so this is one step.*)
(***************************************************************************)
\* the error frame lands in a variable shared by every task
FailedSharedFrame(t, s, at, e) ==
    /\ outcome' = [outcome EXCEPT ![t] = Raised(at, e)]
    /\ df' = [u \in Sites |-> ErrorFrame(t, e)]
    /\ pool' = Released(pool, s)
    /\ events' = [events EXCEPT ![t] = @ \o <<at, "error", "release", "close">>]
    /\ pc' = [pc EXCEPT ![t] = "closing"]

\* release and close sit after the try statement instead of in its finally
FailedWithoutFinally(t, s, at, e) ==
    /\ outcome' = [outcome EXCEPT ![t] = Raised(at, e)]
    /\ df' = [df EXCEPT ![t] = ErrorFrame(t, e)]
    /\ pool' = IF s > 0
               THEN [pool EXCEPT ![s] = [@ EXCEPT !.busy = FALSE, !.postfix = "Error"]]
               ELSE pool
    /\ events' = [events EXCEPT ![t] = @ \o <<at, "error">>]
    /\ pc' = [pc EXCEPT ![t] = "closing"]

Failed(t, s, at, e) ==
    /\ outcome' = [outcome EXCEPT ![t] = Raised(at, e)]
    /\ df' = [df EXCEPT ![t] = ErrorFrame(t, e)]
    /\ pool' = Released(pool, s)
    /\ events' = [events EXCEPT ![t] = @ \o <<at, "error", "release", "close">>]
    /\ pc' = [pc EXCEPT ![t] = "closing"]

\* the table came back: df = pd.DataFrame(table[1:], columns=table[0]),
\* sp.done("Done"), then the finally block
Succeeded(t, at, table) ==
    /\ outcome' = [outcome EXCEPT ![t] = Returned(at, Len(table) - 1)]
    /\ df' = [df EXCEPT ![t] = DataFrame(Tail1(table), table[1])]
    /\ pool' = Released(pool, sp[t])
    /\ events' = [events EXCEPT ![t] = @ \o <<at, "done", "release", "close">>]
    /\ pc' = [pc EXCEPT ![t] = "closing"]

\* a slot of the pool handed out by acquire
Taken(p, s) ==
    IF s > 0 THEN [p EXCEPT ![s] = [busy |-> TRUE, desc |-> "Starting...", postfix |-> ""]]
             ELSE p

\* system = factory(site), called with progress object s in hand
Factory(t, s) ==
    \E o \in FactoryOutcomes(t) :
        IF o = "bound"
        THEN /\ system' = [system EXCEPT ![t] = "bound"]
             /\ pool' = Taken(pool, s)
             /\ pc' = [pc EXCEPT ![t] = "call"]
             /\ events' = [events EXCEPT ![t] = Append(@, "factory")]
             /\ UNCHANGED <<outcome, df>>
        ELSE /\ Failed(t, s, "factory", o)
             /\ UNCHANGED system

(***************************************************************************)
(* sp = await mgr.acquire(), then the factory call.  With progress         *)
(* disabled acquire returns the null object; otherwise it scans the pool   *)
(* under the lock and, when every slot is busy, sleeps and scans again.    *)
(* Nothing suspends between the return of acquire and the first await of   *)
(* the scraper call, so the factory call belongs to the same step.         *)
(***************************************************************************)
MgrAcquire(t) ==
    /\ pc[t] = "acquire"
    /\ LET s == IF show_progress THEN FirstIdle(pool) ELSE NullObject
       IN IF s # 0
          THEN /\ sp' = [sp EXCEPT ![t] = s]
               /\ Factory(t, s)
          ELSE \* await asyncio.sleep(0.02), scan again
               UNCHANGED <<sp, pool, pc, events, system, outcome, df>>
    /\ UNCHANGED <<argVars, notRun, sem, waiters, doneq, finished, results,
                   overall, mainpc, workbook>>

(***************************************************************************)
(* table = await system.get_info(progress=sp)                              *)
(*   discovery phase: raises, or finds n sub-entities and calls            *)
(*   progress.start                                                        *)
(***************************************************************************)
GetInfoDiscover(t) ==
    /\ pc[t] = "call"
    /\ mode = "get_info"
    /\ \E o \in DiscoveryOutcomes(t) :
         IF o = "discovered"
         THEN /\ pool' = Started(pool, sp[t], PropertyOf(t))
              /\ pc' = [pc EXCEPT ![t] = "rows"]
              /\ events' = [events EXCEPT ![t] = Append(@, "discovered")]
              /\ UNCHANGED <<outcome, df>>
         ELSE Failed(t, sp[t], "get_info", o)
    /\ UNCHANGED <<argVars, notRun, sem, waiters, sp, system, doneq, finished,
                   results, overall, mainpc, workbook>>

\* the sub-entities the device of site i holds
SubEntities(i) == (i + 1) % (MaxRows + 1)

\* the per-sub-entity loop ends and get_info returns its table
GetInfoReturn(t) ==
    /\ pc[t] = "rows"
    /\ Succeeded(t, "get_info", InfoTable(SubEntities(t)))
    /\ UNCHANGED <<argVars, notRun, sem, waiters, sp, system, doneq, finished,
                   results, overall, mainpc, workbook>>

\* table = await system.set_config(payload or {}, progress=sp)
SetConfig(t) ==
    /\ pc[t] = "call"
    /\ mode # "get_info"
    /\ Succeeded(t, "set_config", SetConfigTable)
    /\ UNCHANGED <<argVars, notRun, sem, waiters, sp, system, doneq, finished,
                   results, overall, mainpc, workbook>>

(***************************************************************************)
(* The close attempt ends (any exception swallowed), one() returns its     *)
(* tuple, its local `sp` goes away and the semaphore permit is given back. *)
(***************************************************************************)
\* the permit is not given back
ReturnKeepsPermit(t) ==
    /\ pc[t] = "closing"
    /\ pc' = [pc EXCEPT ![t] = "done"]
    /\ sp' = [sp EXCEPT ![t] = 0]
    /\ doneq' = Append(doneq, t)
    /\ finished' = Append(finished, t)
    /\ events' = [events EXCEPT ![t] = Append(@, "return")]
    /\ UNCHANGED <<argVars, notRun, sem, waiters, pool, system, outcome, df,
                   results, overall, mainpc, workbook>>

Return(t) ==
    /\ pc[t] = "closing"
    /\ pc' = [pc EXCEPT ![t] = "done"]
    /\ sem' = sem + 1
    /\ sp' = [sp EXCEPT ![t] = 0]
    /\ doneq' = Append(doneq, t)
    /\ finished' = Append(finished, t)
    /\ events' = [events EXCEPT ![t] = Append(@, "return")]
    /\ UNCHANGED <<argVars, notRun, waiters, pool, system, outcome, df, results,
                   overall, mainpc, workbook>>

(***************************************************************************)
(* for fut in asyncio.as_completed(coros): results.append(await fut)       *)
(***************************************************************************)
\* `site` read from the enclosing loop after it has ended
EntryLateBound(t) == [property |-> PropertyOf(NumSites), system |-> SystemOf(NumSites),
                      df |-> df[t]]

\* return (site.property, site.system, df)
Entry(t) == [property |-> PropertyOf(t), system |-> SystemOf(t), df |-> df[t]]

\* results gathered in the order of the input list
CollectInInputOrder ==
    /\ mainpc = "run"
    /\ doneq # <<>>
    /\ LET t == CHOOSE u \in Range(doneq) : \A v \in Range(doneq) : u <= v
       IN /\ results' = Append(results, Entry(t))
          /\ doneq' = SelectSeq(doneq, LAMBDA v : v # t)
    /\ overall' = overall + 1
    /\ UNCHANGED <<argVars, notRun, sem, waiters, pool, pc, sp, system, outcome, df,
                   events, finished, mainpc, workbook>>

Collect ==
    /\ mainpc = "run"
    /\ doneq # <<>>
    /\ results' = Append(results, Entry(Head(doneq)))
    /\ doneq' = Tail(doneq)
    /\ overall' = overall + 1
    /\ UNCHANGED <<argVars, notRun, sem, waiters, pool, pc, sp, system, outcome, df,
                   events, finished, mainpc, workbook>>

\* the loop is exhausted: return results
RunManyReturn ==
    /\ mainpc = "run"
    /\ Len(results) = NumSites
    /\ mainpc' = "returned"
    /\ UNCHANGED <<argVars, notRun, runVars, workbook>>

(***************************************************************************)
(* speed_audit.main after run_many: write_workbook(fname, results), then   *)
(* the upload call.  upload_to_file_server requires the keyword `subdir`,  *)
(* which main does not pass: the call raises TypeError, and main has no    *)
(* handler around it.                                                      *)
(***************************************************************************)
Sheet(e) == [property |-> e.property, system |-> e.system]

write_workbook(res) == [k \in 1..Len(res) |-> Sheet(res[k])]

WriteWorkbook ==
    /\ mainpc = "returned"
    /\ mode = "get_info"
    /\ workbook' = write_workbook(results)
    /\ mainpc' = "written"
    /\ UNCHANGED <<argVars, notRun, runVars>>

Upload ==
    /\ mainpc = "written"
    /\ mainpc' = "crashed"
    /\ UNCHANGED <<argVars, notRun, runVars, workbook>>

Next ==
    \/ \E t \in Sites : Start(t)
    \/ \E t \in Sites : Grant(t)
    \/ \E t \in Sites : MgrAcquire(t)
    \/ \E t \in Sites : GetInfoDiscover(t)
    \/ \E t \in Sites : GetInfoReturn(t)
    \/ \E t \in Sites : SetConfig(t)
    \/ \E t \in Sites : Return(t)
    \/ Collect
    \/ RunManyReturn
    \/ WriteWorkbook
    \/ Upload

Spec == Init /\ [][Next]_vars

(***************************************************************************)
(* The event loop runs every task that is ready, and every scraper call    *)
(* and close eventually returns or raises.                                 *)
(***************************************************************************)
Task(t) ==
    \/ Start(t) \/ Grant(t) \/ MgrAcquire(t)
    \/ GetInfoDiscover(t) \/ GetInfoReturn(t) \/ SetConfig(t) \/ Return(t)

\* every step of a task or of the collecting loop changes runVars, and
\* run_many's return changes mainpc
Fairness ==
    /\ \A t \in Sites : WF_runVars(Task(t))
    /\ WF_runVars(Collect)
    /\ WF_mainpc(RunManyReturn)

SpecLive == Spec /\ Fairness

(***************************************************************************)
(* Properties of run_many and of the speed-audit tail.                     *)
(***************************************************************************)
RunManyReturned == mainpc # "run"

SiteOfProperty(p) == CHOOSE t \in Sites : PropertyOf(t) = p

EntriesOf(t) == {k \in DOMAIN results :
                    /\ results[k].property = PropertyOf(t)
                    /\ results[k].system = SystemOf(t)}

\* the tasks inside their unit of work: the body of `async with sem`, from
\* the permit taken to the permit given back
InWork == {t \in Sites : pc[t] \in {"acquire", "call", "rows", "closing"}}

\* C1: once run_many has returned, its list holds exactly one entry for
\* every site of the input, whether the scraper returned a table or raised.
C1_OneEntryPerSite ==
    RunManyReturned =>
        /\ Len(results) = NumSites
        /\ \A t \in Sites : Cardinality(EntriesOf(t)) = 1

C1_Witness ==
    /\ RunManyReturned
    /\ \E t \in Sites : outcome[t].kind = "raised"
    /\ \E t \in Sites : outcome[t].kind = "returned"

\* C2 (as amended): at most max(1, concurrency) device tasks are inside
\* their unit of work at any time.
C2_AtMostSemSizeInWork == Cardinality(InWork) <= Max(1, concurrency)

\* C2 (as stated): at most `concurrency` device tasks are inside their unit
\* of work at any time.
C2_AtMostConcurrencyInWork == Cardinality(InWork) <= concurrency

C2_Witness ==
    /\ concurrency = 2
    /\ Cardinality(InWork) = 2
    /\ \E t \in Sites : pc[t] = "waiting"

\* C3 (as stated): a device whose get_info raised is recorded with a frame
\* of columns [Property, System, Status] and exactly one data row, whose
\* Status contains "Error:".
C3_ErrorFrameHasOneRow ==
    \A t \in Sites :
        (outcome[t].kind = "raised" /\ outcome[t].at = "get_info") =>
            /\ df[t].columns = ErrorColumns
            /\ Len(df[t].rows) = 1
            /\ CellContains(df[t].rows[1][3], "Error:")

\* C4: if every scraper call eventually returns or raises, run_many
\* eventually returns, with every task finished, every permit given back
\* and every progress slot idle.
C4_RunManyReturns ==
    <>(/\ RunManyReturned
       /\ \A t \in Sites : pc[t] = "done"
       /\ sem = SemSize(concurrency)
       /\ \A k \in DOMAIN pool : pool[k] = IdleSlot)

C4_Witness ==
    /\ RunManyReturned
    /\ concurrency < NumSites
    /\ show_progress
    /\ \E t \in Sites : outcome[t].kind = "raised"

EndsWith(s, suffix) ==
    /\ Len(s) >= Len(suffix)
    /\ SubSeq(s, Len(s) - Len(suffix) + 1, Len(s)) = suffix

\* C5: on every path of a device task the finally block releases the
\* task's progress slot back to idle and then attempts the close, before
\* the task returns; when run_many returns every slot of the pool is idle.
C5_ReleaseAndCloseOnEveryPath ==
    [][ /\ \A t \in Sites :
             (pc[t] # "closing" /\ pc'[t] = "closing") =>
                 /\ sp'[t] > 0 => pool'[sp'[t]] = IdleSlot
                 /\ EndsWith(events'[t], <<"release", "close">>)
        /\ \A t \in Sites :
             (pc[t] # "done" /\ pc'[t] = "done") =>
                 /\ pc[t] = "closing"
                 /\ EndsWith(events'[t], <<"release", "close", "return">>)
        /\ (mainpc = "run" /\ mainpc' # "run") =>
                 \A k \in DOMAIN pool' : pool'[k] = IdleSlot
      ]_vars

C5_Witness ==
    /\ RunManyReturned
    /\ show_progress
    /\ \E t \in Sites : /\ outcome[t].kind = "raised"
                         /\ outcome[t].at = "factory"
                         /\ system[t] = "unbound"
    /\ \E t \in Sites : outcome[t].kind = "raised" /\ outcome[t].at = "get_info"
    /\ \E t \in Sites : outcome[t].kind = "returned"

\* C7: the returned list is in completion order: the k-th entry belongs to
\* the k-th task that finished.
C7_ResultsInCompletionOrder ==
    /\ Len(results) <= Len(finished)
    /\ \A k \in DOMAIN results : results[k].property = PropertyOf(finished[k])

C7_Witness ==
    /\ RunManyReturned
    /\ \E i, j \in DOMAIN results :
          i < j /\ SiteOfProperty(results[i].property) > SiteOfProperty(results[j].property)

SortedByPropertyIgnoringCase(w) ==
    \A i, j \in DOMAIN w :
        i < j => Ord(StrLower(w[i].property)) <= Ord(StrLower(w[j].property))

\* C8 (as stated): the sheets of the speed-audit workbook are in
\* case-insensitive order of property name, whatever the completion order.
C8_WorkbookSortedByProperty ==
    mainpc \in {"written", "crashed"} => SortedByPropertyIgnoringCase(workbook)

\* the frame run_many records for a task, as a function of what the task's
\* own scraper did
FrameFor(t, o) ==
    IF o.kind = "raised" THEN ErrorFrame(t, o.exc)
    ELSE IF o.at = "set_config"
         THEN DataFrame(Tail1(SetConfigTable), SetConfigTable[1])
         ELSE DataFrame(Tail1(InfoTable(o.rows)), InfoHeader)

\* C10: a failure of one device (credentials, discovery) is recorded as
\* that device's error entry, and the entry of every device is determined
\* by what its own scraper did, not by the failure of another.
C10_FailureAbortsOnlyThatDevice ==
    /\ \A k \in DOMAIN results :
          LET t == SiteOfProperty(results[k].property)
          IN /\ results[k].df = FrameFor(t, outcome[t])
             /\ outcome[t].kind = "raised" =>
                   \E r \in DOMAIN results[k].df.rows :
                       /\ results[k].df.rows[r][1] = Cell(PropertyOf(t))
                       /\ CellContains(results[k].df.rows[r][3], "Error:")
    /\ \A t \in Sites : pc[t] \in {"closing", "done"} => df[t] = FrameFor(t, outcome[t])

C10_Witness ==
    /\ RunManyReturned
    /\ \E t \in Sites :
          /\ outcome[t].kind = "raised"
          /\ outcome[t].exc = "Missing environment variables"
    /\ \E t \in Sites : outcome[t].kind = "raised" /\ outcome[t].at = "get_info"
    /\ \E t \in Sites : outcome[t].kind = "returned" /\ outcome[t].rows > 0


(***************************************************************************)
(* SpecScrape: one call of a scraper's get_info.                           *)
(*   CMTSystem.get_info, DSLSystem.get_info, ETTPSystem.get_info,          *)
(*   GPONSystem.get_info (src/netops/systems)                              *)
(***************************************************************************)
MaxSub == 2
MaxSlots == 1
\* range(1, 25) in DSLSystem.get_info, scaled down
PortsPerSlot == 2

Names == <<"u1", "u2", "u3", "u4", "u5", "u6", "u7", "u8">>
Macs == <<"m1", "m2", "m3", "m4", "m5", "m6", "m7", "m8">>
Digits == <<"1", "2", "3", "4", "5", "6", "7", "8">>

NameIndex(nm) == CHOOSE i \in DOMAIN Names : Names[i] = nm

RECURSIVE InsertByIdentity(_, _)
InsertByIdentity(sorted, x) ==
    IF sorted = <<>> THEN <<x>>
    ELSE IF NameIndex(x.identity) < NameIndex(Head(sorted).identity)
         THEN <<x>> \o sorted
         ELSE <<Head(sorted)>> \o InsertByIdentity(Tail(sorted), x)

\* sorted(clean, key=lambda x: x[1])
RECURSIVE SortByIdentity(_)
SortByIdentity(seq) ==
    IF seq = <<>> THEN <<>>
    ELSE InsertByIdentity(SortByIdentity(SubSeq(seq, 1, Len(seq) - 1)), seq[Len(seq)])

Reverse(seq) == [k \in 1..Len(seq) |-> seq[Len(seq) + 1 - k]]

KindHeader(kind) ==
    IF kind = "DSL"
    THEN <<Cell("Identity"), Cell("Serial/Mac"), Cell("Speed"), Cell("Status")>>
    ELSE IF kind = "GPON"
    THEN <<Cell("Identity"), Cell("Serial/Mac"), Cell("Speed"), Cell("Status"), Cell("Notes")>>
    ELSE InfoHeader

\* CMTSystem._get_list: the description lines carrying a MAC, in the order
\* the device printed them
CmtsLines(n, reversed) ==
    LET asc == [k \in 1..n |-> [identity |-> Names[k], mac |-> Macs[k]]]
    IN IF reversed THEN Reverse(asc) ELSE asc

\* DSLSystem.get_info: for slot in slots: for port in range(1, 25)
DslPorts(nslots) ==
    [k \in 1..(nslots * PortsPerSlot) |->
        [slot |-> ((k - 1) \div PortsPerSlot) + 1,
         port |-> ((k - 1) % PortsPerSlot) + 1,
         identity |-> Names[k]]]

ModemClasses == {"no_modem_ip", "inactive", "reachable"}

\* ETTPSystem._get_neighbors_df: one row per (Identity, Mac)
EttpModems(classes) ==
    [k \in 1..Len(classes) |->
        [identity |-> Names[k], mac |-> Macs[k], class |-> classes[k]]]

\* run_many is not running
RunIdle ==
    /\ concurrency = 1
    /\ show_progress = FALSE
    /\ mode = "get_info"
    /\ sem = 1
    /\ waiters = <<>>
    /\ pool = <<>>
    /\ pc = [t \in Sites |-> "new"]
    /\ sp = [t \in Sites |-> 0]
    /\ system = [t \in Sites |-> "unbound"]
    /\ outcome = [t \in Sites |-> NoOutcome]
    /\ df = [t \in Sites |-> NoFrame]
    /\ events = [t \in Sites |-> <<>>]
    /\ doneq = <<>>
    /\ finished = <<>>
    /\ results = <<>>
    /\ overall = 0
    /\ mainpc = "idle"
    /\ workbook = <<>>

runAll == <<argVars, runVars, mainpc, workbook>>

\* what the actions of a scraper leave alone
notScrape == <<runAll, dailyVars, extVars>>

SeqsUpTo(S, n) == UNION {[1..m -> S] : m \in 0..n}

ScrapeInit ==
    /\ sc_kind \in {"CMTS", "DSL", "ETTP", "GPON"}
    /\ sc_progress \in BOOLEAN
    /\ sc_pc = "open"
    /\ sc_session = "none"
    /\ sc_items = <<>>
    /\ sc_i = 0
    /\ sc_table = <<KindHeader(sc_kind)>>
    /\ sc_raised = {}
    /\ sc_outs = <<>>
    /\ sc_bar = NoBar
    /\ DailyIdle
    /\ RunIdle
    /\ ExtIdle

(***************************************************************************)
(* Credentials and session.  resolve_env(user_key, pw_key) raises when a   *)
(* variable is unset; GPONSystem calls it with one argument.  The Telnet   *)
(* login (CMTS, DSL) or the SSH connect (ETTP) raises or succeeds.         *)
(***************************************************************************)
ScOpen ==
    /\ sc_pc = "open"
    /\ \E o \in {"ok", "creds", "connect"} :
         IF sc_kind = "GPON" \/ o = "creds"
         THEN /\ sc_pc' = "raised"
              /\ UNCHANGED sc_session
         ELSE IF o = "connect"
         THEN /\ sc_pc' = "raised"
              /\ sc_session' = "closed"
         ELSE /\ sc_pc' = "discover"
              /\ sc_session' = "open"
    /\ UNCHANGED <<sc_kind, sc_progress, sc_items, sc_i, sc_table, sc_raised, sc_outs,
                   sc_bar, notScrape>>

\* progress.start(total=..., desc=...)
BarStarted(total) == IF sc_progress THEN [total |-> total, n |-> 0] ELSE sc_bar

\* progress.update(1)
BarUpdated == IF sc_progress THEN [sc_bar EXCEPT !.n = @ + 1] ELSE sc_bar

(***************************************************************************)
(* Discovery phase: list the modems / slots / neighbours.  A failure here  *)
(* leaves get_info through the session's context manager.                  *)
(***************************************************************************)
Discovered(items, session) ==
    /\ sc_items' = items
    /\ sc_bar' = BarStarted(Len(items))
    /\ sc_session' = session
    /\ sc_pc' = "loop"

ScDiscover ==
    /\ sc_pc = "discover"
    /\ \/ /\ sc_pc' = "raised"
          /\ sc_session' = "closed"
          /\ UNCHANGED <<sc_items, sc_bar>>
       \/ /\ sc_kind = "CMTS"
          /\ \E n \in 0..MaxSub, reversed \in BOOLEAN :
               Discovered(SortByIdentity(CmtsLines(n, reversed)), "open")
       \/ /\ sc_kind = "DSL"
          /\ \E nslots \in 0..MaxSlots :
               Discovered(DslPorts(nslots), "open")
       \/ /\ sc_kind = "ETTP"
          /\ \E classes \in SeqsUpTo(ModemClasses, MaxSub) :
               Discovered(EttpModems(classes), "closed")
    /\ UNCHANGED <<sc_kind, sc_progress, sc_i, sc_table, sc_raised, sc_outs, notScrape>>

Row4(a, b, c, d) == <<Cell(a), Cell(b), Cell(c), Cell(d)>>

\* what the device did when asked about a sub-entity: the call raised, or
\* it printed `out`
Answer(raised, out) == [raised |-> raised, out |-> out]

\* one iteration of a loop: the row is appended and progress.update(1) runs
Handled(row, raised, o) ==
    /\ sc_table' = Append(sc_table, row)
    /\ sc_raised' = IF raised THEN sc_raised \cup {sc_i + 1} ELSE sc_raised
    /\ sc_outs' = Append(sc_outs, o)
    /\ sc_i' = sc_i + 1
    /\ sc_bar' = BarUpdated
    /\ UNCHANGED <<sc_pc, sc_session>>

(***************************************************************************)
(* CMTSystem.get_info: for mac, identity in modems                         *)
(***************************************************************************)
\* what `show cable modem <mac> verbose | include DHCPv4` printed, word by
\* word
CmtsOutputs == {<<>>, <<"DHCPv4">>, <<"DHCPv4", "Mbps">>, <<"DHCPv4", "100Mbps">>,
                <<"50Mbps", "100Mbps">>}

\* the words (\d+Mbps) matches
MbpsWords == {"50Mbps", "100Mbps"}

\* m = re.search(r'(\d+Mbps)', out); speed = m.group(1) if m else ''
MbpsToken(out) ==
    IF \E k \in DOMAIN out : out[k] \in MbpsWords
    THEN out[CHOOSE k \in DOMAIN out :
                 /\ out[k] \in MbpsWords
                 /\ \A j \in 1..(k - 1) : out[j] \notin MbpsWords]
    ELSE ""

\* no match is a row of "No Data"
CmtsRowNoDataWithoutToken(m, out) ==
    IF MbpsToken(out) = ""
    THEN Row4(m.identity, m.mac, "No Data", "No Data")
    ELSE Row4(m.identity, m.mac, MbpsToken(out), "Active")

\* status = 'Active' if speed else 'Inactive'
\* final_list.append([identity, mac, speed, status])
CmtsRow(m, out) ==
    LET speed == MbpsToken(out)
    IN Row4(m.identity, m.mac, speed, IF speed # "" THEN "Active" ELSE "Inactive")

CmtsModem ==
    /\ sc_pc = "loop"
    /\ sc_kind = "CMTS"
    /\ sc_i < Len(sc_items)
    /\ LET m == sc_items[sc_i + 1]
       IN \/ \* sess.exec raised
             Handled(Row4(m.identity, "No Data", "No Data", "No Data"), TRUE,
                     Answer(TRUE, <<>>))
          \/ \E out \in CmtsOutputs :
                Handled(CmtsRow(m, out), FALSE, Answer(FALSE, out))
    /\ UNCHANGED <<sc_kind, sc_progress, sc_items, notScrape>>

(***************************************************************************)
(* DSLSystem.get_info: for slot in slots: for port in range(1, 25)         *)
(***************************************************************************)
\* the per-port handler is missing: the exception leaves get_info
DslPortUnhandled ==
    /\ sc_pc = "loop"
    /\ sc_kind = "DSL"
    /\ sc_i < Len(sc_items)
    /\ LET p == sc_items[sc_i + 1]
       IN \E o \in {"stats_raises", "desc_raises", "up", "down"} :
            IF o \in {"stats_raises", "desc_raises"}
            THEN /\ sc_pc' = "raised"
                 /\ sc_session' = "closed"
                 /\ sc_raised' = sc_raised \cup {sc_i + 1}
                 /\ UNCHANGED <<sc_table, sc_i, sc_bar, sc_outs>>
            ELSE Handled(Row4(p.identity, "sn", "50 Mbps",
                              IF o = "up" THEN "Active" ELSE "Inactive"), FALSE,
                         Answer(FALSE, <<o>>))
    /\ UNCHANGED <<sc_kind, sc_progress, sc_items, notScrape>>

DslPort ==
    /\ sc_pc = "loop"
    /\ sc_kind = "DSL"
    /\ sc_i < Len(sc_items)
    /\ LET p == sc_items[sc_i + 1]
       IN \E o \in {"stats_raises", "desc_raises", "up", "down"} :
            IF o \in {"stats_raises", "desc_raises"}
            THEN Handled(<< <<"1/", Digits[p.slot], "/", Digits[p.port]>>,
                            Cell(""), Cell(""), Cell("Error")>>, TRUE,
                         Answer(TRUE, <<o>>))
            ELSE Handled(Row4(p.identity, "sn", "50 Mbps",
                              IF o = "up" THEN "Active" ELSE "Inactive"), FALSE,
                         Answer(FALSE, <<o>>))
    /\ UNCHANGED <<sc_kind, sc_progress, sc_items, notScrape>>

(***************************************************************************)
(* ETTPSystem.get_info: for _, row in modems.iterrows()                    *)
(***************************************************************************)
EttpModem ==
    /\ sc_pc = "loop"
    /\ sc_kind = "ETTP"
    /\ sc_i < Len(sc_items)
    /\ LET m == sc_items[sc_i + 1]
       IN IF m.class = "no_modem_ip"
          THEN Handled(Row4(m.identity, m.mac, "No Data", "No Modem IP"), FALSE,
                       Answer(FALSE, <<m.class>>))
          ELSE IF m.class = "inactive"
          THEN Handled(Row4(m.identity, m.mac, "No Data", "Inactive"), FALSE,
                       Answer(FALSE, <<m.class>>))
          ELSE \E o \in {"raises", "disabled", "rate", "no_rate", "hw"} :
                 IF o = "raises"
                 THEN Handled(Row4(m.identity, m.mac, "No Data", "Could Not Connect"), TRUE,
                              Answer(TRUE, <<o>>))
                 ELSE Handled(Row4(m.identity, m.mac,
                                   CASE o = "disabled" -> "1000 Mbps"
                                     [] o = "rate" -> "50 Mbps"
                                     [] o = "no_rate" -> "1000 Mbps"
                                     [] o = "hw" -> "100Mbps*",
                                   "Active"), FALSE, Answer(FALSE, <<o>>))
    /\ UNCHANGED <<sc_kind, sc_progress, sc_items, notScrape>>

\* the loop is exhausted: the session's context manager exits, return table
\* a device without sub-entities gets a placeholder row
ScReturnPlaceholderRow ==
    /\ sc_pc = "loop"
    /\ sc_i = Len(sc_items)
    /\ sc_pc' = "returned"
    /\ sc_session' = "closed"
    /\ sc_table' = IF sc_items = <<>>
                   THEN Append(sc_table, Row4("", "No Data", "No Data", "No Data"))
                   ELSE sc_table
    /\ UNCHANGED <<sc_kind, sc_progress, sc_items, sc_i, sc_raised, sc_outs, sc_bar, notScrape>>

ScReturn ==
    /\ sc_pc = "loop"
    /\ sc_i = Len(sc_items)
    /\ sc_pc' = "returned"
    /\ sc_session' = "closed"
    /\ UNCHANGED <<sc_kind, sc_progress, sc_items, sc_i, sc_table, sc_raised, sc_outs,
                   sc_bar, notScrape>>

ScrapeNext ==
    \/ ScOpen
    \/ ScDiscover
    \/ CmtsModem
    \/ DslPort
    \/ EttpModem
    \/ ScReturn

SpecScrape == ScrapeInit /\ [][ScrapeNext]_vars

DegradedStatuses == {Cell("No Data"), Cell("Error"), Cell("Could Not Connect")}

\* the Identity cell of the row the loop writes for a sub-entity
RowLabel(item, raised) ==
    IF sc_kind = "DSL" /\ raised
    THEN <<"1/", Digits[item.slot], "/", Digits[item.port]>>
    ELSE Cell(item.identity)

\* C9: an exception while querying one sub-entity yields exactly one
\* degraded row for it and the loop goes on: the table has one data row per
\* sub-entity handled, in order, and get_info is never left by such an
\* exception.
C9_OneRowPerSubEntity ==
    /\ sc_pc \in {"loop", "returned"} =>
          /\ Len(sc_table) = 1 + sc_i
          /\ \A k \in 1..sc_i :
                /\ sc_table[k + 1][1] = RowLabel(sc_items[k], k \in sc_raised)
                /\ k \in sc_raised => sc_table[k + 1][4] \in DegradedStatuses
    /\ sc_pc = "returned" => sc_i = Len(sc_items)
    /\ sc_pc = "raised" => sc_raised = {}

C9_Witness ==
    /\ sc_pc = "returned"
    /\ Len(sc_items) >= 2
    /\ 1 \in sc_raised
    /\ 2 \notin sc_raised
    /\ Len(sc_table) = 1 + Len(sc_items)

\* C13: a device whose discovery succeeded and found no sub-entity gives a
\* table holding the header row only; the frame run_many builds from it has
\* the header as columns and zero data rows, and no cell says "Error:".
C13_NoSubEntityHeaderOnly ==
    (sc_pc \in {"loop", "returned"} /\ sc_items = <<>>) =>
        /\ sc_table = <<KindHeader(sc_kind)>>
        /\ sc_raised = {}
        /\ DataFrame(Tail1(sc_table), sc_table[1]) =
               [columns |-> KindHeader(sc_kind), rows |-> <<>>]
        /\ \A c \in DOMAIN sc_table[1] : ~CellContains(sc_table[1][c], "Error:")

C13_Witness ==
    /\ sc_pc = "returned"
    /\ sc_items = <<>>
    /\ sc_kind = "DSL"
    /\ sc_session = "closed"


(***************************************************************************)
(* SpecDaily: daily-export.  _run fans _collect_one out under a semaphore, *)
(* writes the zip, then daily_export_cli uploads, emails and cleans up.    *)
(***************************************************************************)
NumDevices == 2

Devices == 1..NumDevices

\* click.IntRange(1, 64) on --concurrency
MinConcurrency == 1

\* what the actions of daily-export leave alone
notDaily == <<runAll, scrapeVars, extVars>>

DailyInit ==
    /\ de_args \in [concurrency : MinConcurrency..MaxConcurrency,
                    testing : BOOLEAN, keep : BOOLEAN]
    /\ de_sem = de_args.concurrency
    /\ de_pc = [d \in Devices |-> "new"]
    /\ de_doneq = <<>>
    /\ de_results = <<>>
    /\ de_zip = <<>>
    /\ de_main = "run"
    /\ de_remote = FALSE
    /\ de_email = "no"
    /\ de_log = <<>>
    /\ ScrapeIdle
    /\ RunIdle
    /\ ExtIdle

\* tasks are created in list order and enter `async with sem` in that order
DeEnter(d) ==
    /\ de_main = "run"
    /\ de_pc[d] = "new"
    /\ \A e \in Devices : e < d => de_pc[e] # "new"
    /\ de_sem > 0
    /\ de_sem' = de_sem - 1
    /\ de_pc' = [de_pc EXCEPT ![d] = "collecting"]
    /\ UNCHANGED <<de_args, de_doneq, de_results, de_zip, de_main, de_remote,
                   de_email, de_log, notDaily>>

\* _collect_one: the blocking collector returns its tuple (with or without
\* an error string) or raises, which _collect_one turns into an error tuple
DeCollect(d) ==
    /\ de_pc[d] = "collecting"
    /\ \E err \in {"", "Export failed", "Unhandled error"} :
         de_doneq' = Append(de_doneq, [site |-> PropertyOf(d), err |-> err])
    /\ de_pc' = [de_pc EXCEPT ![d] = "done"]
    /\ de_sem' = de_sem + 1
    /\ UNCHANGED <<de_args, de_results, de_zip, de_main, de_remote, de_email,
                   de_log, notDaily>>

\* for fut in asyncio.as_completed(tasks): results.append(await fut)
DeGather ==
    /\ de_main = "run"
    /\ de_doneq # <<>>
    /\ de_results' = Append(de_results, Head(de_doneq))
    /\ de_doneq' = Tail(de_doneq)
    /\ UNCHANGED <<de_args, de_sem, de_pc, de_zip, de_main, de_remote,
                   de_email, de_log, notDaily>>

RECURSIVE InsertBySite(_, _)
InsertBySite(sorted, x) ==
    IF sorted = <<>> THEN <<x>>
    ELSE IF Ord(StrLower(x.site)) < Ord(StrLower(Head(sorted).site))
         THEN <<x>> \o sorted
         ELSE <<Head(sorted)>> \o InsertBySite(Tail(sorted), x)

\* sorted(results, key=lambda x: x[0].lower())
RECURSIVE SortBySite(_)
SortBySite(seq) ==
    IF seq = <<>> THEN <<>>
    ELSE InsertBySite(SortBySite(SubSeq(seq, 1, Len(seq) - 1)), seq[Len(seq)])

\* the zip is written from the sorted results and _run returns
DeZip ==
    /\ de_main = "run"
    /\ Len(de_results) = NumDevices
    /\ de_zip' = [k \in 1..NumDevices |-> SortBySite(de_results)[k].site]
    /\ de_main' = "zipped"
    /\ UNCHANGED <<de_args, de_sem, de_pc, de_doneq, de_results, de_remote,
                   de_email, de_log, notDaily>>

(***************************************************************************)
(* remote_path = upload_to_file_server(Path(zip_name), cfg, subdir=...)    *)
(* The call stands outside any try statement: when it raises (password not *)
(* set, connect, mkdir or put failure) the command ends with the error.    *)
(***************************************************************************)
DeUpload ==
    /\ de_main = "zipped"
    /\ \/ /\ de_remote' = TRUE
          /\ de_main' = IF de_args.testing THEN "uploaded" ELSE "email"
       \/ /\ de_main' = "error: upload"
          /\ UNCHANGED de_remote
    /\ UNCHANGED <<de_args, de_sem, de_pc, de_doneq, de_results, de_zip,
                   de_email, de_log, notDaily>>

\* testing: remove_from_file_server(cfg, remote_path); the connect is outside
\* its try statements
DeTestingRemove ==
    /\ de_main = "uploaded"
    /\ \/ /\ de_remote' = FALSE
          /\ de_main' = "email"
          /\ UNCHANGED de_log
       \/ /\ de_log' = Append(de_log, "remote zip removal failed")
          /\ de_main' = "email"
          /\ UNCHANGED de_remote
       \/ /\ de_main' = "error: remove"
          /\ UNCHANGED <<de_remote, de_log>>
    /\ UNCHANGED <<de_args, de_sem, de_pc, de_doneq, de_results, de_zip,
                   de_email, notDaily>>

\* the email step, inside try/except Exception: log.error("email failed")
DeEmail ==
    /\ de_main = "email"
    /\ \/ /\ de_email' = "sent"
          /\ UNCHANGED de_log
       \/ /\ de_email' = "failed"
          /\ de_log' = Append(de_log, "email failed")
    /\ de_main' = "cleanup"
    /\ UNCHANGED <<de_args, de_sem, de_pc, de_doneq, de_results, de_zip,
                   de_remote, notDaily>>

\* local cleanup unless --keep; the command ends normally
DeCleanup ==
    /\ de_main = "cleanup"
    /\ de_zip' = IF de_args.keep THEN de_zip ELSE <<>>
    /\ de_main' = "finished"
    /\ UNCHANGED <<de_args, de_sem, de_pc, de_doneq, de_results, de_remote,
                   de_email, de_log, notDaily>>

DailyNext ==
    \/ \E d \in Devices : DeEnter(d)
    \/ \E d \in Devices : DeCollect(d)
    \/ DeGather
    \/ DeZip
    \/ DeUpload
    \/ DeTestingRemove
    \/ DeEmail
    \/ DeCleanup

SpecDaily == DailyInit /\ [][DailyNext]_vars

\* C6 (as stated): once the results are written, an exception in the upload
\* to the file server does not end the command with an error (and so does
\* not keep the email step from being attempted).
C6_UploadFailureDoesNotAbort == de_main # "error: upload"

(***************************************************************************)
(* The transports and one-shot tools below are each studied on their own:  *)
(* a specification holds every other part of the state at rest.            *)
(***************************************************************************)
IdleBut(x) ==
    /\ RunIdle
    /\ ScrapeIdle
    /\ DailyIdle
    /\ IF x = "ssh" THEN TRUE ELSE SshIdle
    /\ IF x = "tel" THEN TRUE ELSE TelIdle
    /\ IF x = "pick" THEN TRUE ELSE PickIdle
    /\ IF x = "queue" THEN TRUE ELSE QueueIdle
    /\ IF x = "cmp" THEN TRUE ELSE CmpIdle
    /\ IF x = "roll" THEN TRUE ELSE RollIdle
    /\ IF x = "mass" THEN TRUE ELSE MassIdle
    /\ IF x = "clean" THEN TRUE ELSE CleanIdle
    /\ IF x = "lock" THEN TRUE ELSE LockIdle
    /\ IF x = "det" THEN TRUE ELSE DetIdle
    /\ IF x = "simple" THEN TRUE ELSE SimpleIdle
    /\ IF x = "col" THEN TRUE ELSE ColIdle

SameBut(x) ==
    /\ UNCHANGED <<runAll, scrapeVars, dailyVars>>
    /\ IF x = "ssh" THEN TRUE ELSE UNCHANGED sshVars
    /\ IF x = "tel" THEN TRUE ELSE UNCHANGED telVars
    /\ IF x = "pick" THEN TRUE ELSE UNCHANGED pickVars
    /\ IF x = "queue" THEN TRUE ELSE UNCHANGED queueVars
    /\ IF x = "cmp" THEN TRUE ELSE UNCHANGED cmpVars
    /\ IF x = "roll" THEN TRUE ELSE UNCHANGED rollVars
    /\ IF x = "mass" THEN TRUE ELSE UNCHANGED massVars
    /\ IF x = "clean" THEN TRUE ELSE UNCHANGED cleanVars
    /\ IF x = "lock" THEN TRUE ELSE UNCHANGED lockVars
    /\ IF x = "det" THEN TRUE ELSE UNCHANGED detVars
    /\ IF x = "simple" THEN TRUE ELSE UNCHANGED simpleVars
    /\ IF x = "col" THEN TRUE ELSE UNCHANGED colVars

(***************************************************************************)
(* SpecSsh: a caller issues commands over SSH, either through              *)
(* SSHRunner.run, which retry_async(times=3, base=0.5, jitter=0.3) wraps,  *)
(* or through ssh_exec on a client that make_ssh_client connected, which   *)
(* nothing wraps.  Delays are in tenths of a second.                       *)
(***************************************************************************)
MaxCmds == 2

Times == 3

BaseDelay == 5

JitterMax == 3

notSsh == <<runAll, scrapeVars, dailyVars>>

SshInit ==
    /\ ss_via \in {"SSHRunner.run", "ssh_exec"}
    /\ ss_client = (ss_via = "ssh_exec")
    /\ ss_cmd = 0
    /\ ss_pc = "idle"
    /\ ss_attempt = 0
    /\ ss_delay = 0
    /\ ss_log = <<>>
    /\ ss_out = <<>>
    /\ IdleBut("ssh")

AttemptEv(n, ok) == [ev |-> "attempt", n |-> n, ok |-> ok, d |-> 0]

SleepEv(d) == [ev |-> "sleep", n |-> 0, ok |-> FALSE, d |-> d]

\* the caller awaits run(command), or calls ssh_exec(client, cmd)
SshCall ==
    /\ ss_pc = "idle"
    /\ ss_cmd < MaxCmds
    /\ ss_cmd' = ss_cmd + 1
    /\ ss_pc' = "try"
    /\ ss_attempt' = 1
    /\ ss_delay' = IF ss_via = "SSHRunner.run" THEN BaseDelay ELSE 0
    /\ ss_log' = <<>>
    /\ UNCHANGED <<ss_via, ss_client, ss_out>>
    /\ SameBut("ssh")

\* what one execution of SSHRunner.run's body can do: _connect raises (only
\* while no client is held), exec_command or a read raises, or the text
\* comes back
RunOutcomes(client) ==
    IF client THEN {"ok", "exec raised"}
              ELSE {"ok", "connect raised", "exec raised"}

\* the except clause of the wrapper: re-raise after the last attempt, else
\* sleep and go round the loop
AfterRaise(attempt) == IF attempt = Times THEN "raised" ELSE "sleep"

\* one turn of `for attempt in range(1, times + 1)`: return await fn(*a, **k)
SshAttempt ==
    /\ ss_pc = "try"
    /\ ss_via = "SSHRunner.run"
    /\ \E o \in RunOutcomes(ss_client) :
         /\ ss_client' = (ss_client \/ o # "connect raised")
         /\ ss_log' = Append(ss_log, AttemptEv(ss_attempt, o = "ok"))
         /\ IF o = "ok"
            THEN /\ ss_pc' = "returned"
                 /\ ss_out' = Append(ss_out, "text")
            ELSE /\ ss_pc' = AfterRaise(ss_attempt)
                 /\ ss_out' = IF AfterRaise(ss_attempt) = "raised"
                              THEN Append(ss_out, "exception") ELSE ss_out
    /\ UNCHANGED <<ss_via, ss_cmd, ss_attempt, ss_delay>>
    /\ SameBut("ssh")

\* await asyncio.sleep(delay + random.uniform(0, jitter)); delay *= 2
SshSleep ==
    /\ ss_pc = "sleep"
    /\ \E j \in {0, JitterMax} :
         ss_log' = Append(ss_log, SleepEv(ss_delay + j))
    /\ ss_delay' = ss_delay * 2
    /\ ss_attempt' = ss_attempt + 1
    /\ ss_pc' = "try"
    /\ UNCHANGED <<ss_via, ss_client, ss_cmd, ss_out>>
    /\ SameBut("ssh")

\* ssh_exec: exec_command, the two reads and recv_exit_status, once
SshExec ==
    /\ ss_pc = "try"
    /\ ss_via = "ssh_exec"
    /\ \E ok \in BOOLEAN :
         /\ ss_log' = Append(ss_log, AttemptEv(ss_attempt, ok))
         /\ ss_pc' = IF ok THEN "returned" ELSE "raised"
         /\ ss_out' = Append(ss_out, IF ok THEN "text" ELSE "exception")
    /\ UNCHANGED <<ss_via, ss_client, ss_cmd, ss_attempt, ss_delay>>
    /\ SameBut("ssh")

\* the caller has the text or has caught the exception, and goes on
SshResume ==
    /\ ss_pc \in {"returned", "raised"}
    /\ ss_pc' = "idle"
    /\ UNCHANGED <<ss_via, ss_client, ss_cmd, ss_attempt, ss_delay, ss_log, ss_out>>
    /\ SameBut("ssh")

SshNext ==
    \/ SshCall
    \/ SshAttempt
    \/ SshSleep
    \/ SshExec
    \/ SshResume

SpecSsh == SshInit /\ [][SshNext]_vars

AttemptsOf(log) == {k \in DOMAIN log : log[k].ev = "attempt"}

SleepsOf(log) == {k \in DOMAIN log : log[k].ev = "sleep"}

\* C11 (as stated): an SSH command is attempted at most 3 times; the first
\* successful attempt ends the call with its output; the exception reaches
\* the caller only when all 3 attempts raised; a sleep separates two
\* attempts and none follows the last.
C11_SshCommandRetried ==
    /\ Cardinality(AttemptsOf(ss_log)) <= Times
    /\ \A k \in DOMAIN ss_log :
          /\ (k % 2 = 1) = (ss_log[k].ev = "attempt")
          /\ (ss_log[k].ev = "attempt" /\ ss_log[k].ok) => k = Len(ss_log)
    /\ ss_pc = "returned" =>
          /\ ss_log # <<>>
          /\ ss_log[Len(ss_log)].ev = "attempt"
          /\ ss_log[Len(ss_log)].ok
    /\ ss_pc = "raised" =>
          /\ Cardinality(AttemptsOf(ss_log)) = Times
          /\ ss_log[Len(ss_log)].ev = "attempt"
          /\ \A k \in AttemptsOf(ss_log) : ~ss_log[k].ok

(***************************************************************************)
(* SpecTelnet: TelnetRunner.  The caller either enters the runner with     *)
(* `async with` and then issues commands, or calls run on a runner that    *)
(* holds no connection, in which case run opens a temporary session of the *)
(* same configuration for that one command.                                *)
(***************************************************************************)
MaxTelCmds == 2

TelInit ==
    /\ tn_enable \in BOOLEAN
    /\ tn_open = FALSE
    /\ tn_temp = FALSE
    /\ tn_pc \in {"enter", "idle"}
    /\ tn_prompt = "> "
    /\ tn_wire = <<>>
    /\ tn_cmd = 0
    /\ tn_sends = 0
    /\ tn_err = ""
    /\ tn_out = <<>>
    /\ IdleBut("tel")

ReadEv(marker) == [op |-> "read", what |-> marker]

WriteEv(line) == [op |-> "write", what |-> line]

\* an exception leaves __aenter__, or run: the caller of a temporary
\* session is run itself, which lets it through to its own caller
TelRaise(at) ==
    /\ tn_pc' = "raised"
    /\ tn_err' = at
    /\ tn_temp' = FALSE
    /\ tn_out' = IF tn_cmd > Len(tn_out) THEN Append(tn_out, "exception") ELSE tn_out

\* telnetlib3.open_connection(host, port, encoding=None)
TelConnect ==
    /\ tn_pc = "enter"
    /\ \E ok \in BOOLEAN :
         IF ok THEN /\ tn_pc' = "username"
                    /\ tn_wire' = <<>>
                    /\ UNCHANGED <<tn_temp, tn_err, tn_out>>
               ELSE /\ TelRaise("connect")
                    /\ UNCHANGED tn_wire
    /\ UNCHANGED <<tn_enable, tn_open, tn_prompt, tn_cmd, tn_sends>>
    /\ SameBut("tel")

\* one readuntil(marker) of the handshake followed by the write of `line`:
\* the read raises (EOF, reset) or the marker arrives
Handshake(marker, line, next) ==
    \E ok \in BOOLEAN :
        IF ok THEN /\ tn_wire' = tn_wire \o <<ReadEv(marker), WriteEv(line)>>
                   /\ tn_pc' = next
                   /\ UNCHANGED <<tn_temp, tn_err, tn_out>>
              ELSE /\ TelRaise("login")
                   /\ UNCHANGED tn_wire

\* readuntil(login_prompts[0]); write(user)
TelUsername ==
    /\ tn_pc = "username"
    /\ Handshake("username prompt", "user", "password")
    /\ UNCHANGED <<tn_enable, tn_open, tn_prompt, tn_cmd, tn_sends>>
    /\ SameBut("tel")

\* readuntil(login_prompts[1]); write(password)
TelPassword ==
    /\ tn_pc = "password"
    /\ Handshake("password prompt", "password", "prompt")
    /\ UNCHANGED <<tn_enable, tn_open, tn_prompt, tn_cmd, tn_sends>>
    /\ SameBut("tel")

\* the enable prompt is not stored: self._prompt stays b"> "
TelOpenedDefaultPrompt(wire, prompt) ==
    /\ tn_wire' = wire
    /\ tn_prompt' = "> "
    /\ tn_open' = ~tn_temp
    /\ tn_pc' = IF tn_temp THEN "send" ELSE "idle"
    /\ UNCHANGED <<tn_temp, tn_err, tn_out>>

\* the session is open: __aenter__ returns self
TelOpened(wire, prompt) ==
    /\ tn_wire' = wire
    /\ tn_prompt' = prompt
    /\ tn_open' = ~tn_temp
    /\ tn_pc' = IF tn_temp THEN "send" ELSE "idle"
    /\ UNCHANGED <<tn_temp, tn_err, tn_out>>

\* readuntil(b"> "), then the enable command when an enable pair is set
TelPrompt ==
    /\ tn_pc = "prompt"
    /\ \E ok \in BOOLEAN :
         IF ~ok
         THEN /\ TelRaise("login")
              /\ UNCHANGED <<tn_wire, tn_prompt, tn_open>>
         ELSE IF tn_enable
         THEN /\ tn_wire' = tn_wire \o <<ReadEv("> "), WriteEv("enable")>>
              /\ tn_pc' = "privileged"
              /\ UNCHANGED <<tn_prompt, tn_open, tn_temp, tn_err, tn_out>>
         ELSE TelOpened(Append(tn_wire, ReadEv("> ")), "> ")
    /\ UNCHANGED <<tn_enable, tn_cmd, tn_sends>>
    /\ SameBut("tel")

\* readuntil(enable_prompt)
TelEnable ==
    /\ tn_pc = "privileged"
    /\ \E ok \in BOOLEAN :
         IF ok THEN TelOpened(Append(tn_wire, ReadEv("# ")), "# ")
               ELSE /\ TelRaise("login")
                    /\ UNCHANGED <<tn_wire, tn_prompt, tn_open>>
    /\ UNCHANGED <<tn_enable, tn_cmd, tn_sends>>
    /\ SameBut("tel")

\* await sess.run(command): with no reader and writer a temporary session
\* is entered first
TelRun ==
    /\ tn_pc = "idle"
    /\ tn_cmd < MaxTelCmds
    /\ tn_cmd' = tn_cmd + 1
    /\ tn_sends' = 0
    /\ tn_err' = ""
    /\ tn_temp' = ~tn_open
    /\ tn_pc' = IF tn_open THEN "send" ELSE "enter"
    /\ UNCHANGED <<tn_enable, tn_open, tn_prompt, tn_wire, tn_out>>
    /\ SameBut("tel")

\* the command is written again, up to three times
CommandFailedResend(sends) == IF sends < 3 THEN "send" ELSE "raised"

\* no handler surrounds the write and the read of run
CommandFailed(sends) == "raised"

\* what a failed write or read of run leads to
TelFailed(at, sends) ==
    IF CommandFailed(sends) = "raised"
    THEN TelRaise(at)
    ELSE /\ tn_pc' = CommandFailed(sends)
         /\ tn_err' = at
         /\ UNCHANGED <<tn_temp, tn_out>>

\* self._writer.write(command + b"\n")
TelSend ==
    /\ tn_pc = "send"
    /\ \E ok \in BOOLEAN :
         IF ok THEN /\ tn_wire' = Append(tn_wire, WriteEv("command"))
                    /\ tn_sends' = tn_sends + 1
                    /\ tn_pc' = "read"
                    /\ UNCHANGED <<tn_temp, tn_err, tn_out>>
               ELSE /\ TelFailed("write", tn_sends)
                    /\ UNCHANGED <<tn_wire, tn_sends>>
    /\ UNCHANGED <<tn_enable, tn_open, tn_prompt, tn_cmd>>
    /\ SameBut("tel")

\* data_b = await self._reader.readuntil(self._prompt); the echo is dropped
\* and the text returned.  A temporary session is left on the way out.
TelRead ==
    /\ tn_pc = "read"
    /\ \E ok \in BOOLEAN :
         IF ok THEN /\ tn_wire' = Append(tn_wire, ReadEv(tn_prompt))
                    /\ tn_pc' = "returned"
                    /\ tn_out' = Append(tn_out, "text")
                    /\ tn_temp' = FALSE
                    /\ UNCHANGED tn_err
               ELSE /\ TelFailed("read", tn_sends)
                    /\ UNCHANGED tn_wire
    /\ UNCHANGED <<tn_enable, tn_open, tn_prompt, tn_cmd, tn_sends>>
    /\ SameBut("tel")

\* the caller has the text or has caught the exception, and goes on; an
\* exception out of `async with` ends the caller's use of the runner
TelResume ==
    /\ tn_pc \in {"returned", "raised"}
    /\ tn_pc' = IF tn_cmd = 0 THEN "left" ELSE "idle"
    /\ UNCHANGED <<tn_enable, tn_open, tn_temp, tn_prompt, tn_wire, tn_cmd,
                   tn_sends, tn_err, tn_out>>
    /\ SameBut("tel")

\* __aexit__: the writer is closed, reader and writer are dropped
TelExit ==
    /\ tn_pc = "idle"
    /\ tn_open
    /\ tn_open' = FALSE
    /\ UNCHANGED <<tn_enable, tn_temp, tn_pc, tn_prompt, tn_wire, tn_cmd,
                   tn_sends, tn_err, tn_out>>
    /\ SameBut("tel")

TelNext ==
    \/ TelConnect
    \/ TelUsername
    \/ TelPassword
    \/ TelPrompt
    \/ TelEnable
    \/ TelRun
    \/ TelSend
    \/ TelRead
    \/ TelResume
    \/ TelExit

SpecTelnet == TelInit /\ [][TelNext]_vars

\* C12: a Telnet command is written at most once; when its write or its
\* read-until-prompt fails the exception is what the caller gets for that
\* command, and the command is not written again; a command that returned
\* text was written exactly once.
C12_TelnetCommandSentOnce ==
    /\ tn_sends <= 1
    /\ tn_err \in {"write", "read"} =>
          /\ tn_pc \in {"raised", "idle"}
          /\ Len(tn_out) = tn_cmd
          /\ tn_out[tn_cmd] = "exception"
    /\ tn_pc = "returned" => tn_sends = 1 /\ tn_out[tn_cmd] = "text"

C12_Witness ==
    /\ tn_cmd = MaxTelCmds
    /\ tn_pc = "raised"
    /\ tn_err = "read"
    /\ tn_sends = 1
    /\ tn_out[1] = "text"

(***************************************************************************)
(* SpecPick: pick_speed_and_note applied to the profile values that        *)
(* parse_traf_prof_legacy_values collected for one ONU port.  The values   *)
(* come from tokens that pass str.isdigit, so none is negative.            *)
(***************************************************************************)
MaxVals == 4

ProfileValues == {0, 1, 2, 50, 512, 1000, 2000}

PickInit ==
    /\ pk_values \in SeqsUpTo(ProfileValues, MaxVals)
    /\ pk_pc = "call"
    /\ pk_result = [none |-> TRUE, speed |-> "", note |-> ""]
    /\ IdleBut("pick")

SetMin(S) == CHOOSE m \in S : \A x \in S : m <= x

\* sorted(...) of a set of integers
RECURSIVE Ascending(_)
Ascending(S) ==
    IF S = {} THEN <<>> ELSE <<SetMin(S)>> \o Ascending(S \ {SetMin(S)})

\* ", ".join(str(v) for v in valid)
RECURSIVE JoinInts(_)
JoinInts(seq) ==
    IF seq = <<>> THEN ""
    ELSE IF Len(seq) = 1 THEN ToString(seq[1])
    ELSE ToString(seq[1]) \o ", " \o JoinInts(Tail(seq))

\* f"{speed_val} Mbps"
Mbps(n) == ToString(n) \o " Mbps"

\* valid = sorted({v for v in values if v > 1 and v != 512})
Valid(values) == {v \in Range(values) : v > 1 /\ v # 512}

\* the note, for a non-empty set of valid values
NoteOf(valid) ==
    IF Cardinality(valid) > 1
    THEN IF 1000 \in valid /\ SetMin(valid) # 1000
         THEN "Camera profile present"
         ELSE "Multiple profiles: " \o JoinInts(Ascending(valid))
    ELSE ""

pick_speed_and_note(values) ==
    IF Valid(values) = {}
    THEN [none |-> TRUE, speed |-> "", note |-> ""]
    ELSE [none |-> FALSE, speed |-> Mbps(SetMin(Valid(values))),
          note |-> NoteOf(Valid(values))]

\* speed, note = pick_speed_and_note(prof_vals)
PickCall ==
    /\ pk_pc = "call"
    /\ pk_result' = pick_speed_and_note(pk_values)
    /\ pk_pc' = "done"
    /\ UNCHANGED pk_values
    /\ SameBut("pick")

PickNext == PickCall

SpecPick == PickInit /\ [][PickNext]_vars

Sentinels == {0, 1, 512}

NonSentinel(values) == {v \in Range(values) : v \notin Sentinels}

\* C14 (as stated): the speed is the lowest value that is not a sentinel
\* (0, 1, 512), as "<n> Mbps"; there is no speed when no such value exists;
\* the note is "Camera profile present" when more than one distinct
\* non-sentinel value remains and 1000 is one of them; [512, 0, 50, 1000]
\* gives ("50 Mbps", "Camera profile present").
C14_LowestNonSentinelAndCameraNote ==
    pk_pc = "done" =>
        /\ pk_result.none = (NonSentinel(pk_values) = {})
        /\ NonSentinel(pk_values) # {} =>
              pk_result.speed = Mbps(SetMin(NonSentinel(pk_values)))
        /\ (Cardinality(NonSentinel(pk_values)) > 1 /\ 1000 \in NonSentinel(pk_values)) =>
              pk_result.note = "Camera profile present"
        /\ pk_values = <<512, 0, 50, 1000>> =>
              pk_result = [none |-> FALSE, speed |-> "50 Mbps",
                           note |-> "Camera profile present"]

(***************************************************************************)
(* SpecQueue: the try block of ETTPSystem.get_info for one modem that has  *)
(* a Modem IP and an Internet or Public IP.  The three exports are held as *)
(* what the code's regular expressions and parsers read from them:         *)
(*   an add-line of the simple export: whether it matches name=Internet,   *)
(*     whether it matches target=Bridge_Internet, and the value of its     *)
(*     first disabled=(yes|no) token ("" when it has none);                *)
(*   a rule of the verbose export: whether it is disabled and the rate its *)
(*     queue or max-limit field gives ("" when neither parses);            *)
(*   the ethernet export: the speed=<n>Mbps values, in order.              *)
(***************************************************************************)
MaxRules == 2
MaxVerbose == 1
MaxEther == 1

AddLines == [name : BOOLEAN, target : BOOLEAN, disabled : {"yes", "no", ""}]
VerboseRules == [disabled : BOOLEAN, rate : {"", "50 Mbps"}]
EtherSpeeds == {"100Mbps"}

QueueInit ==
    /\ qu_simple \in SeqsUpTo(AddLines, MaxRules)
    /\ qu_verbose \in SeqsUpTo(VerboseRules, MaxVerbose)
    /\ qu_ether \in SeqsUpTo(EtherSpeeds, MaxEther)
    /\ qu_pc = "call"
    /\ qu_row = [speed |-> "", status |-> ""]
    /\ IdleBut("queue")

\* candidates: the add-lines that name Internet or target Bridge_Internet
Candidates(simple) == SelectSeq(simple, LAMBDA ln : ln.name \/ ln.target)

\* candidates.sort(key=...): stable, the lines with name=Internet first
Preferred(candidates) ==
    SelectSeq(candidates, LAMBDA ln : ln.name)
        \o SelectSeq(candidates, LAMBDA ln : ~ln.name)

_internet_queue_disabled_from_simple(simple) ==
    LET candidates == Preferred(Candidates(simple))
    IN  IF candidates = <<>> THEN FALSE ELSE candidates[1].disabled = "yes"

rate_from_rule(rule) == IF rule.disabled THEN "" ELSE rule.rate

\* next((rt for rt in (rate_from_rule(r) for r in rules) if rt), "1000 Mbps")
FirstRate(rules) ==
    LET rates == SelectSeq([i \in 1..Len(rules) |-> rate_from_rule(rules[i])],
                           LAMBDA rt : rt # "")
    IN  IF rates = <<>> THEN "1000 Mbps" ELSE rates[1]

\* the rate read from the verbose export even when the queue is disabled
QueueRateFromVerbose(simple, verbose) == FirstRate(verbose)

QueueRate(simple, verbose) ==
    IF _internet_queue_disabled_from_simple(simple) THEN "1000 Mbps"
    ELSE FirstRate(verbose)

\* hw = re.findall(...); if hw: queue_rate = f"{hw[0]}*"
PreferEthernet(queue_rate, hw) ==
    IF hw # <<>> THEN hw[1] \o "*" ELSE queue_rate

\* the three commands ran: results.append([identity, mac, queue_rate, 'Active'])
QueueActive ==
    /\ qu_pc = "call"
    /\ qu_row' = [speed |-> PreferEthernet(QueueRate(qu_simple, qu_verbose),
                                          qu_ether),
                  status |-> "Active"]
    /\ qu_pc' = "done"
    /\ UNCHANGED <<qu_simple, qu_verbose, qu_ether>>
    /\ SameBut("queue")

\* except Exception: the connection or a command raised
QueueCouldNotConnect ==
    /\ qu_pc = "call"
    /\ qu_row' = [speed |-> "No Data", status |-> "Could Not Connect"]
    /\ qu_pc' = "done"
    /\ UNCHANGED <<qu_simple, qu_verbose, qu_ether>>
    /\ SameBut("queue")

QueueNext ==
    \/ QueueActive
    \/ QueueCouldNotConnect

SpecQueue == QueueInit /\ [][QueueNext]_vars

\* the export contains a rule named Internet that carries disabled=yes
InternetRuleDisabled ==
    \E i \in 1..Len(qu_simple) :
        qu_simple[i].name /\ qu_simple[i].disabled = "yes"

\* the first rule named Internet carries disabled=yes
FirstInternetRuleDisabled ==
    \E i \in 1..Len(qu_simple) :
        /\ qu_simple[i].name
        /\ qu_simple[i].disabled = "yes"
        /\ \A j \in 1..(i - 1) : ~qu_simple[j].name

\* C15 as stated: a reachable modem whose simple export contains the rule
\* name="Internet" with disabled=yes is reported with Speed "1000 Mbps",
\* whatever the verbose export contains.
C15_DisabledQueueIs1000 ==
    (qu_pc = "done" /\ qu_row.status = "Active" /\ InternetRuleDisabled)
        => qu_row.speed = "1000 Mbps"

\* C15 amended: a reachable modem whose first simple-export rule named
\* Internet carries disabled=yes is reported with Speed "1000 Mbps" whatever
\* the verbose export contains when the ethernet export reports no speed,
\* and with the first ethernet speed followed by "*" when it reports one.
C15_DisabledQueueIs1000UnlessEthernet ==
    (qu_pc = "done" /\ qu_row.status = "Active" /\ FirstInternetRuleDisabled)
        => qu_row.speed = IF qu_ether = <<>> THEN "1000 Mbps"
                          ELSE qu_ether[1] \o "*"

C15_Witness ==
    /\ qu_pc = "done"
    /\ qu_row.status = "Active"
    /\ FirstInternetRuleDisabled
    /\ qu_verbose = <<[disabled |-> FALSE, rate |-> "50 Mbps"]>>
    /\ qu_ether = <<>>
    /\ qu_row.speed = "1000 Mbps"

(***************************************************************************)
(* SpecCompare: compare_runs on two loaded runs.  All rows belong to one   *)
(* Property, so the merge key (Property, Identity) is the Identity.  A     *)
(* Speed of "" is an empty cell (NaN); Mac/Serial and Status went through  *)
(* astype(str) in ensure_columns and are never empty.  A row's Status is   *)
(* the one the scrapers give with its Speed.                               *)
(***************************************************************************)
MaxSnapRows == 2

Identities == 1..2
Speeds == {"50 Mbps", "100 Mbps", "No Data", ""}
NaN == -1

StatusOfSpeed(speed) ==
    IF speed = "" THEN "Error"
    ELSE IF speed = "No Data" THEN "Inactive" ELSE "Active"

SnapRows ==
    {r \in [key : Identities, mac : {"aa", "bb"}, speed : Speeds,
            status : {"Active", "Inactive", "Error"}] :
        r.status = StatusOfSpeed(r.speed)}

Without(seq, n) ==
    [i \in 1..(Len(seq) - 1) |-> IF i < n THEN seq[i] ELSE seq[i + 1]]

\* the current run: the previous one with at most one row replaced,
\* removed or added
Edits(prev) ==
    {prev}
        \cup {[prev EXCEPT ![i] = r] : i \in 1..Len(prev), r \in SnapRows}
        \cup {Without(prev, n) : n \in 1..Len(prev)}
        \cup {Append(prev, r) : r \in SnapRows}

CompareInit ==
    /\ cr_prev \in SeqsUpTo(SnapRows, MaxSnapRows)
    /\ cr_curr \in {c \in Edits(cr_prev) : Len(c) <= MaxSnapRows}
    /\ cr_pc = "call"
    /\ cr_changes = <<>>
    /\ IdleBut("cmp")

\* str.extract(r"([0-9]+\.?[0-9]*)") then pd.to_numeric(errors="coerce")
to_numeric_speed(speed) ==
    IF speed = "50 Mbps" THEN 50
    ELSE IF speed = "100 Mbps" THEN 100
    ELSE NaN

\* one row of the outer merge: prev and curr are row numbers, 0 for the
\* side that has no row with the key
MergedOf(prev, curr, k) ==
    LET np == Len(prev)
        nc == Len(curr)
        both == SelectSeq(
                    [n \in 1..(np * nc) |->
                        [key |-> k, merge |-> "both",
                         prev |-> ((n - 1) \div nc) + 1,
                         curr |-> ((n - 1) % nc) + 1]],
                    LAMBDA m : prev[m.prev].key = k /\ curr[m.curr].key = k)
        inPrev == \E i \in 1..np : prev[i].key = k
        inCurr == \E j \in 1..nc : curr[j].key = k
        left == SelectSeq(
                    [i \in 1..np |-> [key |-> k, merge |-> "left_only",
                                      prev |-> i, curr |-> 0]],
                    LAMBDA m : prev[m.prev].key = k /\ ~inCurr)
        right == SelectSeq(
                    [j \in 1..nc |-> [key |-> k, merge |-> "right_only",
                                      prev |-> 0, curr |-> j]],
                    LAMBDA m : curr[m.curr].key = k /\ ~inPrev)
    IN  both \o left \o right

\* prev_df.merge(curr_df, on=["Property", "Identity"], how="outer"): the
\* keys in ascending order
RECURSIVE Merged(_, _, _)
Merged(prev, curr, keys) ==
    IF keys = {} THEN <<>>
    ELSE LET k == CHOOSE x \in keys : \A y \in keys : x <= y
         IN  MergedOf(prev, curr, k) \o Merged(prev, curr, keys \ {k})

\* the speed flag of a row present in both runs
SpeedFlags(ps, cs) ==
    IF ps = "" /\ cs # "" THEN <<"Speed Changed">>
    ELSE IF ps # "" /\ cs = "" THEN <<"Speed Changed">>
    ELSE IF ps # "" /\ cs # "" THEN
        IF to_numeric_speed(ps) # NaN /\ to_numeric_speed(cs) # NaN THEN
            IF to_numeric_speed(cs) > to_numeric_speed(ps)
                THEN <<"Speed Increased">>
            ELSE IF to_numeric_speed(cs) < to_numeric_speed(ps)
                THEN <<"Speed Decreased">>
            ELSE <<>>
        ELSE IF ps # cs THEN <<"Speed Changed">> ELSE <<>>
    ELSE <<>>

EquipmentFlags(pm, cm) ==
    IF pm # "" /\ cm # "" /\ pm # cm THEN <<"Equipment Changed">> ELSE <<>>

\* the arrow of the source text is written "->"
StatusFlags(pst, cst) ==
    IF pst # "" /\ cst # "" /\ pst # cst
        THEN <<"Status Changed (" \o pst \o " -> " \o cst \o ")">>
    ELSE <<>>

change_flags(prev, curr, m) ==
    IF m.merge = "left_only" THEN <<"Removed Entry">>
    ELSE IF m.merge = "right_only" THEN <<"New Entry">>
    ELSE SpeedFlags(prev[m.prev].speed, curr[m.curr].speed)
            \o EquipmentFlags(prev[m.prev].mac, curr[m.curr].mac)
            \o StatusFlags(prev[m.prev].status, curr[m.curr].status)

\* "; ".join(change_flags)
RECURSIVE JoinFlags(_)
JoinFlags(flags) ==
    IF flags = <<>> THEN ""
    ELSE IF Len(flags) = 1 THEN flags[1]
    ELSE flags[1] \o "; " \o JoinFlags(Tail(flags))

compare_runs(prev, curr) ==
    LET merged == Merged(prev, curr, Identities)
        changed == SelectSeq(merged,
                             LAMBDA m : change_flags(prev, curr, m) # <<>>)
    IN  [n \in 1..Len(changed) |->
            [Identity |-> changed[n].key,
             Change |-> JoinFlags(change_flags(prev, curr, changed[n]))]]

CompareCall ==
    /\ cr_pc = "call"
    /\ cr_changes' = compare_runs(cr_prev, cr_curr)
    /\ cr_pc' = "done"
    /\ UNCHANGED <<cr_prev, cr_curr>>
    /\ SameBut("cmp")

CompareNext == CompareCall

SpecCompare == CompareInit /\ [][CompareNext]_vars

RowsOf(snapshot, k) == SelectSeq(snapshot, LAMBDA r : r.key = k)

\* the two runs differ only in the Speed of identity k, and the current
\* numeric speed is the higher one
DifferOnlyInSpeedOf(k) ==
    /\ Len(cr_prev) = Len(cr_curr)
    /\ \A i \in 1..Len(cr_prev) :
         /\ cr_prev[i].key = cr_curr[i].key
         /\ cr_prev[i].mac = cr_curr[i].mac
         /\ cr_prev[i].status = cr_curr[i].status
         /\ cr_prev[i].speed # cr_curr[i].speed =>
              /\ cr_prev[i].key = k
              /\ to_numeric_speed(cr_prev[i].speed) # NaN
              /\ to_numeric_speed(cr_curr[i].speed)
                   > to_numeric_speed(cr_prev[i].speed)
    /\ \E i \in 1..Len(cr_prev) : cr_prev[i].speed # cr_curr[i].speed

\* C16 as stated: when two snapshots differ only in the Speed of one
\* identity and the current numeric speed is the higher one, compare_runs
\* emits exactly one record, for that identity, with Change "Speed
\* Increased"; an identity whose rows are equal in both snapshots produces
\* no record.
C16_OneSpeedIncreasedRecord ==
    cr_pc = "done" =>
        /\ \A k \in Identities :
             DifferOnlyInSpeedOf(k) =>
                 /\ Len(cr_changes) = 1
                 /\ cr_changes[1].Identity = k
                 /\ cr_changes[1].Change = "Speed Increased"
        /\ \A k \in Identities :
             (RowsOf(cr_prev, k) # <<>>
                  /\ RowsOf(cr_prev, k) = RowsOf(cr_curr, k))
                 => \A n \in 1..Len(cr_changes) : cr_changes[n].Identity # k

(***************************************************************************)
(* SpecRollout: wg_radius_rollout_cli.  The endpoint, the RADIUS secret    *)
(* and the core SSH credentials are set; the core SSH user is not root and *)
(* a command that passwordless sudo backs succeeds.  Each log holds the    *)
(* commands that ssh_exec sent to the host, by kind.                       *)
(***************************************************************************)
MaxRouters == 1

Routers == 1..MaxRouters

\* the find/add pairs of _apply_one_mikrotik_blocking, in order
RouterItems == <<"interface", "address", "peer", "route", "radius", "filter">>

ExistingChoices == {{}, {"interface", "address"}, Range(RouterItems)}

RolloutInit ==
    /\ ro_args \in [apply : BOOLEAN, auto_core : BOOLEAN, restart : BOOLEAN]
    /\ ro_core \in [tools : BOOLEAN, sudo : BOOLEAN, pub : BOOLEAN,
                    key : BOOLEAN, conf : BOOLEAN]
    /\ ro_left \in {Routers, {}}
    /\ ro_existing \in [Routers -> ExistingChoices]
    /\ ro_pc = "start"
    /\ ro_core_cmds = <<>>
    /\ ro_router_cmds = [r \in Routers |-> <<>>]
    /\ ro_results = [r \in Routers |-> "none"]
    /\ IdleBut("roll")

\* _linux_gen_core_keys_if_missing, entered with the tools and sudo probes
\* of the caller passed: the commands it sends
GenCoreKeysCmds(core) ==
    IF core.pub THEN <<"cat">>
    ELSE <<"cat", "probe tools", "probe sudo", "mkdir", "genkey", "chmod",
           "cat">>

\* _ensure_wg_quick_config, entered after the keys step: the commands it
\* sends; it raises when the private key is missing
EnsureConfCmds(core) ==
    IF core.conf THEN <<"cat">>
    ELSE IF ~(core.key \/ ~core.pub) THEN <<"cat", "probe sudo", "cat">>
    ELSE <<"cat", "probe sudo", "cat", "mkdir", "write", "chmod">>

\* radius-core's files after the auto-core block ran to its end or raised
CoreAfterPrepare(core) ==
    LET keyed == [core EXCEPT !.pub = TRUE,
                              !.key = IF core.pub THEN core.key ELSE TRUE]
    IN  [keyed EXCEPT !.conf = core.conf \/ keyed.key]

\* if auto_core: ... ; else: the core public key comes from the environment
\* (set or not)
RolloutPrepare ==
    /\ ro_pc = "start"
    /\ IF ro_args.auto_core THEN
           IF ~ro_core.tools THEN
               /\ ro_core_cmds' = <<"probe tools">>
               /\ ro_pc' = "aborted"
               /\ UNCHANGED ro_core
           ELSE IF ~ro_core.sudo THEN
               /\ ro_core_cmds' = <<"probe tools", "probe sudo">>
               /\ ro_pc' = "aborted"
               /\ UNCHANGED ro_core
           ELSE
               /\ ro_core_cmds' = <<"probe tools", "probe sudo">>
                      \o GenCoreKeysCmds(ro_core) \o EnsureConfCmds(ro_core)
               /\ ro_core' = CoreAfterPrepare(ro_core)
               /\ ro_pc' = IF CoreAfterPrepare(ro_core).conf
                              THEN (IF ro_left = {} THEN "done" ELSE "routers")
                           ELSE "aborted"
       ELSE
           /\ ro_pc' \in {"aborted", IF ro_left = {} THEN "done" ELSE "routers"}
           /\ UNCHANGED <<ro_core, ro_core_cmds>>
    /\ UNCHANGED <<ro_args, ro_existing, ro_left, ro_router_cmds, ro_results>>
    /\ SameBut("roll")

\* run(find) then, when it printed nothing, run(add), for each item
RECURSIVE FindAndAdd(_, _)
FindAndAdd(items, existing) ==
    IF items = <<>> THEN <<>>
    ELSE <<"find " \o Head(items)>>
            \o (IF Head(items) \in existing THEN <<>>
                ELSE <<"add " \o Head(items)>>)
            \o FindAndAdd(Tail(items), existing)

\* the commands one router receives; run() sends nothing without apply
RouterCmds(apply, existing) ==
    IF apply
        THEN <<"setline", "key generate">> \o FindAndAdd(RouterItems, existing)
    ELSE <<"setline">>

\* _apply_one_mikrotik for one router, the connection open
RolloutRouter(r) ==
    /\ ro_pc = "routers"
    /\ r \in ro_left
    /\ ro_router_cmds' =
         [ro_router_cmds EXCEPT ![r] = RouterCmds(ro_args.apply, ro_existing[r])]
    /\ ro_results' = [ro_results EXCEPT ![r] = "ok"]
    /\ ro_left' = ro_left \ {r}
    /\ ro_pc' = IF ro_left' = {} THEN "inject" ELSE "routers"
    /\ UNCHANGED <<ro_args, ro_core, ro_existing, ro_core_cmds>>
    /\ SameBut("roll")

\* resolve_env or make_ssh_client raised: ok=False, nothing sent
RolloutRouterFailed(r) ==
    /\ ro_pc = "routers"
    /\ r \in ro_left
    /\ ro_results' = [ro_results EXCEPT ![r] = "failed"]
    /\ ro_left' = ro_left \ {r}
    /\ ro_pc' = IF ro_left' = {} THEN "inject" ELSE "routers"
    /\ UNCHANGED <<ro_args, ro_core, ro_existing, ro_core_cmds,
                   ro_router_cmds>>
    /\ SameBut("roll")

\* _linux_restart_wg_quick: systemctl restart, else wg-quick down and up
RestartCmds == {<<"probe sudo", "restart">>,
                <<"probe sudo", "restart", "wg-quick down", "wg-quick up">>}

\* the local files are written; then if auto_core and core_ssh is not None
RolloutInject ==
    /\ ro_pc = "inject"
    /\ IF ro_args.auto_core /\ ro_args.apply THEN
           \E write \in {<<>>, <<"write", "chmod">>} :
             \E restart \in (IF ro_args.restart THEN RestartCmds ELSE {<<>>}) :
               ro_core_cmds' = ro_core_cmds \o <<"cat">> \o write \o restart
       ELSE UNCHANGED ro_core_cmds
    /\ ro_pc' = "done"
    /\ UNCHANGED <<ro_args, ro_core, ro_existing, ro_left, ro_router_cmds,
                   ro_results>>
    /\ SameBut("roll")

RolloutNext ==
    \/ RolloutPrepare
    \/ \E r \in Routers : RolloutRouter(r)
    \/ \E r \in Routers : RolloutRouterFailed(r)
    \/ RolloutInject

SpecRollout == RolloutInit /\ [][RolloutNext]_vars

\* the commands that change a remote host
StateChanging ==
    {"mkdir", "genkey", "chmod", "write", "restart", "wg-quick down",
     "wg-quick up", "key generate"}
        \cup {"add " \o RouterItems[i] : i \in 1..Len(RouterItems)}

\* C17 as stated: without --apply no state-changing command is executed on
\* a router or on radius-core during the whole command.
C17_DryRunChangesNothing ==
    ~ro_args.apply =>
        /\ \A i \in 1..Len(ro_core_cmds) : ro_core_cmds[i] \notin StateChanging
        /\ \A r \in DOMAIN ro_router_cmds :
             \A i \in 1..Len(ro_router_cmds[r]) :
                 ro_router_cmds[r][i] \notin StateChanging

(***************************************************************************)
(* SpecMass: mass-config in run mode, _mode_run over the selected sites.   *)
(* _ssh_upload_and_maybe_import runs in a worker thread and is one step of *)
(* the model: it touches only its own site.  ma_steps records what it      *)
(* issued to the router, the step that raised included.                    *)
(***************************************************************************)
MaxMassSites == 2

MassSites == 1..MaxMassSites
MassConcurrencies == 0..2
RunLevels == {"dry-run", "upload", "apply"}
NoResult == [ok |-> FALSE, msg |-> "none"]

MassInit ==
    /\ ma_args \in [run_level : RunLevels, keep : BOOLEAN,
                    concurrency : MassConcurrencies]
    /\ ma_access \in {[s \in MassSites |-> "ssh"],
                      [s \in MassSites |-> IF s = 1 THEN "telnet" ELSE "ssh"]}
    /\ ma_pc = [s \in MassSites |-> "queued"]
    /\ ma_sem = ma_args.concurrency
    /\ ma_steps = [s \in MassSites |-> <<>>]
    /\ ma_uploaded = [s \in MassSites |-> FALSE]
    /\ ma_result = [s \in MassSites |-> NoResult]
    /\ ma_finished = <<>>
    /\ ma_results = <<>>
    /\ ma_main = "gather"
    /\ IdleBut("mass")

\* tasks are created in the order of sites and the semaphore wakes its
\* waiters in that order
NextQueued(s) ==
    /\ ma_pc[s] = "queued"
    /\ \A o \in MassSites : o < s => ma_pc[o] # "queued"

\* _run_one up to the to_thread call: the access check and resolve_env
MassStart(s) ==
    /\ ma_main = "gather"
    /\ NextQueued(s)
    /\ ma_sem > 0
    /\ IF ma_access[s] # "ssh" THEN
           /\ ma_pc' = [ma_pc EXCEPT ![s] = "returned"]
           /\ ma_result' = [ma_result EXCEPT ![s] =
                              [ok |-> FALSE, msg |-> "skipped"]]
           /\ ma_finished' = Append(ma_finished, s)
           /\ UNCHANGED ma_sem
       ELSE
           \/ /\ ma_pc' = [ma_pc EXCEPT ![s] = "thread"]
              /\ ma_sem' = ma_sem - 1
              /\ UNCHANGED <<ma_result, ma_finished>>
           \/ /\ ma_pc' = [ma_pc EXCEPT ![s] = "raised"]
              /\ ma_finished' = Append(ma_finished, s)
              /\ UNCHANGED <<ma_result, ma_sem>>
    /\ UNCHANGED <<ma_args, ma_access, ma_steps, ma_uploaded, ma_results,
                   ma_main>>
    /\ SameBut("mass")

\* the run level uploads the file
UploadsAtEveryLevel(run_level) == TRUE

Uploads(run_level) == run_level # "dry-run"

Imports(run_level) == run_level = "apply"

\* what _ssh_upload_and_maybe_import issues when nothing raises
StepsOf(run_level, keep) ==
    <<"connect", "identity">>
        \o (IF Uploads(run_level) THEN <<"upload">> ELSE <<>>)
        \o (IF Imports(run_level)
                THEN <<"import">> \o (IF keep THEN <<>> ELSE <<"remove">>)
            ELSE <<>>)

MessageOf(run_level) ==
    IF run_level = "dry-run" THEN "connected"
    ELSE IF run_level = "upload" THEN "uploaded"
    ELSE "uploaded+imported"

Prefix(seq, n) == [i \in 1..n |-> seq[i]]

\* _ssh_upload_and_maybe_import, step n raising (0: none).  A raise of the
\* file removal is swallowed.
UploadAndMaybeImport(run_level, keep, n) ==
    LET steps == StepsOf(run_level, keep)
        issued == IF n = 0 THEN steps ELSE Prefix(steps, n)
        failed == n # 0 /\ steps[n] # "remove"
    IN  [steps |-> issued,
         uploaded |-> \E i \in 1..Len(issued) :
                          issued[i] = "upload" /\ (i # n),
         result |-> IF failed THEN [ok |-> FALSE, msg |-> "Exception"]
                    ELSE [ok |-> TRUE, msg |-> MessageOf(run_level)]]

\* the worker thread ran; _run_one logs, returns and releases the permit
MassThread(s) ==
    /\ ma_pc[s] = "thread"
    /\ \E n \in 0..Len(StepsOf(ma_args.run_level, ma_args.keep)) :
         LET r == UploadAndMaybeImport(ma_args.run_level, ma_args.keep, n)
         IN  /\ ma_steps' = [ma_steps EXCEPT ![s] = r.steps]
             /\ ma_uploaded' = [ma_uploaded EXCEPT ![s] = r.uploaded]
             /\ ma_result' = [ma_result EXCEPT ![s] = r.result]
    /\ ma_pc' = [ma_pc EXCEPT ![s] = "returned"]
    /\ ma_sem' = ma_sem + 1
    /\ ma_finished' = Append(ma_finished, s)
    /\ UNCHANGED <<ma_args, ma_access, ma_results, ma_main>>
    /\ SameBut("mass")

\* for fut in asyncio.as_completed(tasks): results.append(await fut)
MassCollect ==
    /\ ma_main = "gather"
    /\ ma_finished # <<>>
    /\ LET s == Head(ma_finished)
       IN  IF ma_pc[s] = "raised" THEN
               /\ ma_main' = "crashed"
               /\ UNCHANGED ma_results
           ELSE
               /\ ma_results' = Append(ma_results,
                                       [site |-> s, ok |-> ma_result[s].ok,
                                        msg |-> ma_result[s].msg])
               /\ UNCHANGED ma_main
    /\ ma_finished' = Tail(ma_finished)
    /\ UNCHANGED <<ma_args, ma_access, ma_pc, ma_sem, ma_steps, ma_uploaded,
                   ma_result>>
    /\ SameBut("mass")

\* log "Run complete"; if bad: raise SystemExit(2)
MassReport ==
    /\ ma_main = "gather"
    /\ Len(ma_results) = MaxMassSites
    /\ ma_main' = IF \E i \in 1..Len(ma_results) : ~ma_results[i].ok
                     THEN "exit 2" ELSE "complete"
    /\ UNCHANGED <<ma_args, ma_access, ma_pc, ma_sem, ma_steps, ma_uploaded,
                   ma_result, ma_finished, ma_results>>
    /\ SameBut("mass")

MassNext ==
    \/ \E s \in MassSites : MassStart(s)
    \/ \E s \in MassSites : MassThread(s)
    \/ MassCollect
    \/ MassReport

SpecMass == MassInit /\ [][MassNext]_vars

Has(seq, x) == \E i \in 1..Len(seq) : seq[i] = x

IsPrefix(p, seq) ==
    /\ Len(p) <= Len(seq)
    /\ \A i \in 1..Len(p) : p[i] = seq[i]

OkAt(s) == ma_pc[s] = "returned" /\ ma_result[s].ok

\* C18: the steps issued to a site follow the run level.  dry-run connects,
\* runs the identity check and never uploads; upload uploads and never
\* imports; apply uploads, imports, then removes the file unless keep is
\* set; an import is issued only after the upload has completed.
C18_StepsFollowRunLevel ==
    \A s \in DOMAIN ma_steps :
        LET steps == ma_steps[s]
            level == ma_args.run_level
        IN  /\ level = "dry-run" => ~Has(steps, "upload") /\ ~ma_uploaded[s]
            /\ level = "dry-run" /\ OkAt(s) => steps = <<"connect", "identity">>
            /\ level = "upload" => ~Has(steps, "import") /\ ~Has(steps, "remove")
            /\ level = "upload" /\ OkAt(s) =>
                   steps = <<"connect", "identity", "upload">>
            /\ level = "apply" /\ OkAt(s) =>
                   steps = IF ma_args.keep
                              THEN <<"connect", "identity", "upload", "import">>
                           ELSE <<"connect", "identity", "upload", "import",
                                  "remove">>
            /\ IsPrefix(steps, IF ma_args.keep
                                   THEN <<"connect", "identity", "upload",
                                          "import">>
                                ELSE <<"connect", "identity", "upload",
                                       "import", "remove">>)
            /\ Has(steps, "import") => ma_uploaded[s]

C18_Witness ==
    \E s \in DOMAIN ma_steps :
        /\ ma_args.run_level = "apply"
        /\ ~ma_args.keep
        /\ OkAt(s)
        /\ ma_steps[s] = <<"connect", "identity", "upload", "import", "remove">>
        /\ \E o \in DOMAIN ma_steps : o # s /\ ~ma_result[o].ok
                                        /\ ma_pc[o] = "returned"

(***************************************************************************)
(* SpecCleanup: callrec_cleanup.main past the lock, on one SFTP session.   *)
(* The remote tree holds the CX source directory, under the CX root one    *)
(* day folder older than the retention cutoff and today's day folder, each *)
(* in a year and month folder of its own, and the VIP root.  A level says  *)
(* how much of a root/YYYY/MM/DD chain exists: 0 nothing, 1 the year, 2    *)
(* year and month, 3 the day folder too.  cur_files are the names present  *)
(* in today's folder and cur_new those among them whose content this run   *)
(* wrote in full.                                                          *)
(***************************************************************************)
MaxFiles == 2

Files == 1..MaxFiles
Levels == 0..3
OldFolders == {{}, {1}}
VipRoots == {"missing", "empty", "old day"}

Trees ==
    {t \in [src_exists : BOOLEAN, src : SUBSET Files, cx_exists : BOOLEAN,
            old_level : Levels, old_files : OldFolders,
            cur_level : Levels, cur_files : SUBSET Files, cur_new : {{}},
            vip : VipRoots] :
        /\ ~t.src_exists => t.src = {}
        /\ ~t.cx_exists => t.old_level = 0 /\ t.cur_level = 0
        /\ t.old_level < 3 => t.old_files = {}
        /\ t.cur_level < 3 => t.cur_files = {}}

CleanupInit ==
    /\ cl_args \in [dry_run : BOOLEAN, no_retention : BOOLEAN]
    /\ cl_tree \in Trees
    /\ cl_tree0 = cl_tree
    /\ cl_pc = "move"
    /\ cl_todo = <<>>
    /\ cl_ops = {}
    /\ cl_counts = [moved |-> 0, skipped |-> 0, deleted |-> 0]
    /\ IdleBut("clean")

\* the guard of every mutating call: if not dry_run
MutatesEvenDry(dry_run) == TRUE

Mutates(dry_run) == ~dry_run

\* the listing of the source directory, in order
RECURSIVE Listing(_)
Listing(S) ==
    IF S = {} THEN <<>>
    ELSE LET f == CHOOSE x \in S : \A y \in S : x <= y
         IN  <<f>> \o Listing(S \ {f})

\* ensure_remote_dir on today's day folder
EnsureDayDir(tree, dry_run) ==
    IF Mutates(dry_run)
        THEN [tree EXCEPT !.cx_exists = TRUE, !.cur_level = 3]
    ELSE tree

EnsureDayDirOps(tree, dry_run) ==
    IF Mutates(dry_run) /\ tree.cur_level < 3 THEN {"mkdir"} ELSE {}

\* move_cx_files up to its loop
CleanupMove ==
    /\ cl_pc = "move"
    /\ IF cl_tree.src = {} THEN
           /\ cl_pc' = "retention"
           /\ UNCHANGED <<cl_tree, cl_todo, cl_ops>>
       ELSE
           /\ cl_tree' = EnsureDayDir(cl_tree, cl_args.dry_run)
           /\ cl_ops' = cl_ops \cup EnsureDayDirOps(cl_tree, cl_args.dry_run)
           /\ cl_todo' = Listing(cl_tree.src)
           /\ cl_pc' = "files"
    /\ UNCHANGED <<cl_args, cl_tree0, cl_counts>>
    /\ SameBut("clean")

\* the loop goes on to the next file, or move_cx_files returns
NextFile == IF Tail(cl_todo) = <<>> THEN "retention" ELSE "files"

\* the existence test finds nothing
DestinationNeverExists(tree, f) == FALSE

\* remote_exists(sftp, dest_path)
DestinationExists(tree, f) == f \in tree.cur_files

\* one round of the loop, up to the end of sftp.rename.  SFTP's rename
\* refuses a destination that exists.
CleanupFile ==
    /\ cl_pc = "files"
    /\ cl_todo # <<>>
    /\ LET f == Head(cl_todo)
       IN  IF DestinationExists(cl_tree, f) THEN
               /\ cl_counts' = [cl_counts EXCEPT !.skipped = @ + 1]
               /\ cl_pc' = NextFile
               /\ cl_todo' = Tail(cl_todo)
               /\ UNCHANGED <<cl_tree, cl_ops>>
           ELSE IF ~Mutates(cl_args.dry_run) THEN
               /\ cl_counts' = [cl_counts EXCEPT !.moved = @ + 1]
               /\ cl_pc' = NextFile
               /\ cl_todo' = Tail(cl_todo)
               /\ UNCHANGED <<cl_tree, cl_ops>>
           ELSE
               \* sftp.rename moved the file
               \/ /\ f \notin cl_tree.cur_files
                  /\ cl_tree' = [cl_tree EXCEPT !.src = @ \ {f},
                                                !.cur_files = @ \cup {f},
                                                !.cur_new = @ \cup {f}]
                  /\ cl_ops' = cl_ops \cup {"rename"}
                  /\ cl_counts' = [cl_counts EXCEPT !.moved = @ + 1]
                  /\ cl_pc' = NextFile
                  /\ cl_todo' = Tail(cl_todo)
               \* sftp.rename raised: fall back to copy and remove
               \/ /\ cl_ops' = cl_ops \cup {"rename"}
                  /\ cl_pc' = "copy"
                  /\ UNCHANGED <<cl_tree, cl_counts, cl_todo>>
    /\ UNCHANGED <<cl_args, cl_tree0>>
    /\ SameBut("clean")

\* sftp.get(src_path, tmp_local); sftp.put(tmp_local, dest_path): put
\* opens the destination for writing, whatever is there
CleanupCopy ==
    /\ cl_pc = "copy"
    /\ LET f == Head(cl_todo)
       IN  \* get raised
           \/ /\ cl_pc' = "failed"
              /\ cl_todo' = Tail(cl_todo)
              /\ UNCHANGED <<cl_tree, cl_ops>>
           \* put raised, before or after it created the destination file
           \/ /\ cl_tree' \in {cl_tree,
                               [cl_tree EXCEPT !.cur_files = @ \cup {f},
                                               !.cur_new = @ \ {f}]}
              /\ cl_ops' = cl_ops \cup {"put"}
              /\ cl_pc' = "failed"
              /\ cl_todo' = Tail(cl_todo)
           \* the copy is in place
           \/ /\ cl_tree' = [cl_tree EXCEPT !.cur_files = @ \cup {f},
                                            !.cur_new = @ \cup {f}]
              /\ cl_ops' = cl_ops \cup {"put"}
              /\ cl_pc' = "unlink"
              /\ UNCHANGED cl_todo
    /\ UNCHANGED <<cl_args, cl_tree0, cl_counts>>
    /\ SameBut("clean")

\* sftp.remove(src_path); moved += 1
CleanupUnlink ==
    /\ cl_pc = "unlink"
    /\ LET f == Head(cl_todo)
       IN  \/ /\ cl_tree' = [cl_tree EXCEPT !.src = @ \ {f}]
              /\ cl_counts' = [cl_counts EXCEPT !.moved = @ + 1]
              /\ cl_pc' = NextFile
           \* remove raised
           \/ /\ cl_pc' = "failed"
              /\ UNCHANGED <<cl_tree, cl_counts>>
    /\ cl_ops' = cl_ops \cup {"remove"}
    /\ cl_todo' = Tail(cl_todo)
    /\ UNCHANGED <<cl_args, cl_tree0>>
    /\ SameBut("clean")

\* the day folders older than the cutoff, over both roots
OldDayFolders(tree) ==
    (IF tree.old_level = 3 THEN 1 ELSE 0) + (IF tree.vip = "old day" THEN 1 ELSE 0)

\* remove_remote_tree on the old day folders, then cleanup_empty_parents:
\* a month folder with nothing in it and a year folder with nothing in it
\* are removed
AfterRetention(tree, dry_run) ==
    IF ~Mutates(dry_run) THEN tree
    ELSE [tree EXCEPT
            !.old_level = 0,
            !.old_files = {},
            !.cur_level = IF @ = 3 THEN 3 ELSE 0,
            !.vip = IF @ = "old day" THEN "empty" ELSE @]

RetentionOps(tree, dry_run) ==
    IF ~Mutates(dry_run) THEN {}
    ELSE (IF tree.old_files # {} \/ tree.vip = "old day"
              THEN {"remove"} ELSE {})
           \cup (IF tree.old_level > 0 \/ tree.cur_level \in {1, 2}
                    \/ tree.vip = "old day"
                     THEN {"rmdir"} ELSE {})

\* if not args.no_retention: enforce_retention(...); return 0
CleanupRetention ==
    /\ cl_pc = "retention"
    /\ IF cl_args.no_retention THEN UNCHANGED <<cl_tree, cl_ops, cl_counts>>
       ELSE
           /\ cl_tree' = AfterRetention(cl_tree, cl_args.dry_run)
           /\ cl_ops' = cl_ops \cup RetentionOps(cl_tree, cl_args.dry_run)
           /\ cl_counts' = [cl_counts EXCEPT !.deleted = OldDayFolders(cl_tree)]
    /\ cl_pc' = "done"
    /\ UNCHANGED <<cl_args, cl_tree0, cl_todo>>
    /\ SameBut("clean")

CleanupNext ==
    \/ CleanupMove
    \/ CleanupFile
    \/ CleanupCopy
    \/ CleanupUnlink
    \/ CleanupRetention

SpecCleanup == CleanupInit /\ [][CleanupNext]_vars

\* C19: with --dry-run no mutating SFTP operation is performed in the move
\* step, the retention step or the empty-parent cleanup, and the remote
\* tree stays what it was before the run.
C19_DryRunMutatesNothing ==
    (cl_pc # "idle" /\ cl_args.dry_run) =>
        /\ cl_ops = {}
        /\ cl_tree = cl_tree0

C19_Witness ==
    /\ cl_pc = "done"
    /\ cl_args.dry_run
    /\ ~cl_args.no_retention
    /\ cl_counts.moved > 0
    /\ cl_counts.deleted > 0
    /\ cl_tree.cur_level < 3
    /\ cl_tree.old_files # {}
    /\ cl_ops = {}

(***************************************************************************)
(* SpecLock: instances of callrec_cleanup started on one lock file path.   *)
(* os.open with O_CREAT | O_EXCL is one atomic step of the file system.    *)
(* An instance's SFTP work past the lock is counted, not detailed.  The    *)
(* lock file may at first belong to an instance outside the ones followed  *)
(* here, which releases it when it ends.                                   *)
(***************************************************************************)
MaxInstances == 2
MaxSftpOps == 2

Instances == 1..MaxInstances
Foreign == MaxInstances + 1
Running == -1

LockInit ==
    /\ lk_file \in {0, Foreign}
    /\ lk_pc = [i \in Instances |-> "start"]
    /\ lk_fd = [i \in Instances |-> FALSE]
    /\ lk_sftp = [i \in Instances |-> 0]
    /\ lk_exit = [i \in Instances |-> Running]
    /\ IdleBut("lock")

\* os.open(lock_path, O_CREAT | O_WRONLY) would succeed on an existing file
OpenCreates(file) == TRUE

\* os.open(lock_path, O_CREAT | O_EXCL | O_WRONLY) succeeds
OpenExclCreates(file) == file = 0

\* lock.acquire() in main: the file is created and the pid written, or
\* FileExistsError makes main return 2
LockAcquire(i) ==
    /\ lk_pc[i] = "start"
    /\ IF OpenExclCreates(lk_file) THEN
           /\ lk_file' = i
           /\ lk_fd' = [lk_fd EXCEPT ![i] = TRUE]
           /\ lk_pc' = [lk_pc EXCEPT ![i] = "config"]
           /\ UNCHANGED lk_exit
       ELSE
           /\ lk_pc' = [lk_pc EXCEPT ![i] = "exited"]
           /\ lk_exit' = [lk_exit EXCEPT ![i] = 2]
           /\ UNCHANGED <<lk_file, lk_fd>>
    /\ UNCHANGED lk_sftp
    /\ SameBut("lock")

\* return n or an exception caught in main: the finally clause is next
Returning(i, code) ==
    /\ lk_pc' = [lk_pc EXCEPT ![i] = "release"]
    /\ lk_exit' = [lk_exit EXCEPT ![i] = code]

\* cfg_from_env: a missing setting raises ValueError
LockConfig(i) ==
    /\ lk_pc[i] = "config"
    /\ \/ /\ lk_pc' = [lk_pc EXCEPT ![i] = "connect"]
          /\ UNCHANGED lk_exit
       \/ Returning(i, 1)
    /\ UNCHANGED <<lk_file, lk_fd, lk_sftp>>
    /\ SameBut("lock")

\* build_ssh_client and ssh.open_sftp
LockConnect(i) ==
    /\ lk_pc[i] = "connect"
    /\ \/ /\ lk_pc' = [lk_pc EXCEPT ![i] = "sftp"]
          /\ UNCHANGED lk_exit
       \/ Returning(i, 1)
    /\ UNCHANGED <<lk_file, lk_fd, lk_sftp>>
    /\ SameBut("lock")

\* one SFTP operation of move_cx_files or enforce_retention
LockSftpOp(i) ==
    /\ lk_pc[i] = "sftp"
    /\ lk_sftp[i] < MaxSftpOps
    /\ lk_sftp' = [lk_sftp EXCEPT ![i] = @ + 1]
    /\ \/ UNCHANGED <<lk_pc, lk_exit>>
       \/ Returning(i, 1)
    /\ UNCHANGED <<lk_file, lk_fd>>
    /\ SameBut("lock")

\* return 0
LockReturn(i) ==
    /\ lk_pc[i] = "sftp"
    /\ Returning(i, 0)
    /\ UNCHANGED <<lk_file, lk_fd, lk_sftp>>
    /\ SameBut("lock")

\* finally: lock.release(): close the descriptor, unlink the path
LockRelease(i) ==
    /\ lk_pc[i] = "release"
    /\ lk_fd' = [lk_fd EXCEPT ![i] = FALSE]
    /\ lk_file' = 0
    /\ lk_pc' = [lk_pc EXCEPT ![i] = "exited"]
    /\ UNCHANGED <<lk_sftp, lk_exit>>
    /\ SameBut("lock")

\* the instance outside the ones followed ends and releases its lock
ForeignRelease ==
    /\ lk_file = Foreign
    /\ lk_file' = 0
    /\ UNCHANGED <<lk_pc, lk_fd, lk_sftp, lk_exit>>
    /\ SameBut("lock")

LockNext ==
    \/ \E i \in Instances : LockAcquire(i)
    \/ \E i \in Instances : LockConfig(i)
    \/ \E i \in Instances : LockConnect(i)
    \/ \E i \in Instances : LockSftpOp(i)
    \/ \E i \in Instances : LockReturn(i)
    \/ \E i \in Instances : LockRelease(i)
    \/ ForeignRelease

SpecLock == LockInit /\ [][LockNext]_vars

PastLock(i) == lk_pc[i] \in {"config", "connect", "sftp", "release"}

\* instances past the lock, the one outside included
HoldersOfLock ==
    Cardinality({i \in DOMAIN lk_pc : PastLock(i)})
        + (IF lk_file = Foreign THEN 1 ELSE 0)

\* an instance meets an existing lock file: it exits with code 2, has done
\* no SFTP operation and leaves the lock file as it is
TurnedAway ==
    \A i \in DOMAIN lk_pc :
        (lk_pc[i] = "start" /\ lk_file # 0 /\ lk_pc'[i] # "start") =>
            /\ lk_pc'[i] = "exited"
            /\ lk_exit'[i] = 2
            /\ lk_sftp'[i] = 0
            /\ lk_file' = lk_file

Sched(t) == Start(t) \/ Grant(t) \/ MgrAcquire(t) \/ Return(t)

FairnessHung ==
    /\ \A t \in Sites : WF_runVars(Sched(t))
    /\ WF_runVars(Collect)
    /\ WF_mainpc(RunManyReturn)

SpecHung == Spec /\ FairnessHung

\* the tasks inside await system.get_info(...) / await system.set_config(...)
InCall == {t \in Sites : pc[t] \in {"call", "rows"}}

\* at most one scraper call never returns: from some point on, at most one
\* task is inside its scraper call
AtMostOneHung == <>[](Cardinality(InCall) <= 1)

\* every task has finished, except one that stays inside its scraper call
OthersFinish == <>[](\A t \in Sites : pc[t] = "done" \/ t \in InCall)

\* C21 (as stated): one hung device task does not block the others: every
\* other device eventually obtains a permit and a progress slot and
\* finishes its own task.
C21_HungTaskBlocksNoOther == AtMostOneHung => OthersFinish

\* C21 (as amended): when the semaphore has at least two permits, one hung
\* device task does not block the others: every other device eventually
\* obtains a permit and a progress slot and finishes its own task.
C21_HungTaskBlocksNoOtherGivenTwoPermits ==
    (SemSize(concurrency) >= 2 /\ AtMostOneHung) => OthersFinish

\* a device still inside its scraper call, holding a permit and a slot,
\* after every other device has finished
C21_Witness ==
    /\ show_progress
    /\ \E h \in Sites :
          /\ pc[h] \in {"call", "rows"}
          /\ sp[h] > 0
          /\ finished # <<>>
          /\ \E k \in DOMAIN events[finished[1]] : events[finished[1]][k] = "factory"
          /\ \A t \in Sites \ {h} : pc[t] = "done"

(***************************************************************************)
(* The progress-slot pool of run_many.                                     *)
(***************************************************************************)
\* the tasks holding slot k: acquire has returned it and the task has not
\* yet run sp.done / mgr.release
HoldersOfSlot(k) == {t \in Sites : pc[t] \in {"call", "rows"} /\ sp[t] = k}

\* task t comes out of acquire with a slot of the pool
Claims(t) == sp[t] = 0 /\ sp'[t] > 0

\* C22: with progress enabled, no progress slot is held by two in-flight
\* device tasks at the same time: acquire claims the first slot of the pool
\* that is idle, and a held slot stays busy, so it is not handed to another
\* task before its holder has released it.
C22_SlotHeldByOneTask ==
    /\ [](show_progress =>
            \A k \in DOMAIN pool :
                /\ Cardinality(HoldersOfSlot(k)) <= 1
                /\ HoldersOfSlot(k) # {} => pool[k].busy)
    /\ [][ \A t \in Sites :
              Claims(t) =>
                  /\ sp'[t] \in DOMAIN pool
                  /\ ~pool[sp'[t]].busy
                  /\ \A j \in 1..(sp'[t] - 1) : pool[j].busy
                  /\ HoldersOfSlot(sp'[t]) = {} ]_vars

\* two tasks in flight on different slots, the second slot being claimed
\* while the first is busy, after an earlier task has released its slot
C22_Witness ==
    /\ show_progress
    /\ finished # <<>>
    /\ \E t, u \in Sites :
          /\ HoldersOfSlot(1) = {t}
          /\ HoldersOfSlot(2) = {u}
          /\ outcome[finished[1]].kind = "returned"

(***************************************************************************)
(* The order of reads and writes on a TelnetRunner connection.             *)
(***************************************************************************)
\* the reads and writes of __aenter__, in the order of its statements
LoginSequence(enable) ==
    <<ReadEv("username prompt"), WriteEv("user"),
      ReadEv("password prompt"), WriteEv("password"), ReadEv("> ")>>
    \o (IF enable THEN <<WriteEv("enable"), ReadEv("# ")>> ELSE <<>>)

CurrentPrompt(enable) == IF enable THEN "# " ELSE "> "

\* C23: TelnetRunner opens a session in a fixed order (username prompt,
\* username, password prompt, password, "> ", and with an enable pair the
\* enable command and the privileged prompt); no command is sent before
\* this sequence has completed; afterwards every command's output is read
\* until the current prompt: the privileged prompt if enable was used,
\* "> " otherwise.
C23_LoginOrderThenCommands ==
    LET login == LoginSequence(tn_enable)
        n == Len(login)
    IN /\ IsPrefix(tn_wire, login) \/ IsPrefix(login, tn_wire)
       /\ \A k \in DOMAIN tn_wire :
             k > n =>
                 /\ tn_wire[k] \in {WriteEv("command"), ReadEv(CurrentPrompt(tn_enable))}
                 /\ tn_wire[k].op = "read" => tn_wire[k - 1] = WriteEv("command")
       /\ tn_pc \in {"send", "read", "returned"} =>
             /\ IsPrefix(login, tn_wire)
             /\ tn_prompt = CurrentPrompt(tn_enable)
       /\ tn_open => IsPrefix(login, tn_wire)

\* a session with an enable pair on which two commands returned their text
C23_Witness ==
    /\ tn_enable
    /\ tn_open
    /\ tn_pc = "returned"
    /\ Len(tn_wire) = Len(LoginSequence(TRUE)) + 2 * MaxTelCmds
    /\ tn_out = <<"text", "text">>

(***************************************************************************)
(* The rows of CMTSystem.get_info.                                         *)
(***************************************************************************)
\* the cable modems handled for which the device answered and its output
\* holds no Mbps token
WithoutToken ==
    {k \in 1..sc_i : ~sc_outs[k].raised /\ MbpsToken(sc_outs[k].out) = ""}

\* C24 (as stated): in the CMTS scraper, a cable modem whose live-state
\* output contains no Mbps token is recorded with Speed "No Data" and
\* Status "No Data".
C24_NoTokenIsNoData ==
    (sc_kind = "CMTS" /\ sc_pc \in {"loop", "returned"}) =>
        \A k \in WithoutToken :
            /\ sc_table[k + 1][3] = Cell("No Data")
            /\ sc_table[k + 1][4] = Cell("No Data")

\* C24 (as amended): in the CMTS scraper, a cable modem whose live-state
\* output contains no Mbps token is recorded with its MAC, an empty Speed
\* and Status "Inactive"; a cable modem whose query raised is recorded with
\* Mac/Serial, Speed and Status "No Data"; any other modem is recorded with
\* the first Mbps token as Speed and Status "Active".
C24_NoTokenIsInactive ==
    (sc_kind = "CMTS" /\ sc_pc \in {"loop", "returned"}) =>
        \A k \in 1..sc_i :
            LET row == sc_table[k + 1]
                ans == sc_outs[k]
            IN /\ k \in WithoutToken =>
                     row = Row4(sc_items[k].identity, sc_items[k].mac, "", "Inactive")
               /\ ans.raised =>
                     row = Row4(sc_items[k].identity, "No Data", "No Data", "No Data")
               /\ (~ans.raised /\ k \notin WithoutToken) =>
                     /\ row[3] = Cell(MbpsToken(ans.out))
                     /\ row[3] \in {Cell("50Mbps"), Cell("100Mbps")}
                     /\ row[4] = Cell("Active")

\* a returned CMTS table with a modem without token and one with a token
C24_Witness ==
    /\ sc_kind = "CMTS"
    /\ sc_pc = "returned"
    /\ sc_i = 2
    /\ sc_outs[1] = Answer(FALSE, <<"DHCPv4", "Mbps">>)
    /\ sc_outs[2] = Answer(FALSE, <<"50Mbps", "100Mbps">>)

(***************************************************************************)
(* SpecDetect: AsyncTelnetClient with prompt "AUTO".  open logs in, drains *)
(* the banner and calls _detect_prompt; exec then reads each command's     *)
(* output until prompt_bytes, or one line when prompt_bytes is None.       *)
(* A line is the sequence of its characters without the line end.          *)
(***************************************************************************)
MaxDetCmds == 2

\* for _ in range(5)
DetectReads == 5

PromptChars == {"#", ">", "$"}

\* lines a device may print after the nudge
DetectLines == {<<>>, <<"a">>, <<"a", "#">>, <<"a", ">", " ">>, <<"$">>,
                <<"a", ">", "a">>, <<"#", "a", " ">>}

DetInit ==
    /\ dp_pc = "nudge"
    /\ dp_nudges = 0
    /\ dp_reads = 0
    /\ dp_buf = <<>>
    /\ dp_prompt = <<>>
    /\ dp_exec = <<>>
    /\ IdleBut("det")

\* bytes.rstrip()
RECURSIVE rstrip(_)
rstrip(line) ==
    IF line # <<>> /\ line[Len(line)] = " "
    THEN rstrip(SubSeq(line, 1, Len(line) - 1))
    ELSE line

\* bytes.endswith((b"#", b">", b"$"))
EndsWithPromptChar(line) == line # <<>> /\ line[Len(line)] \in PromptChars

\* bytes.endswith(b" ")
EndsWithSpace(line) == line # <<>> /\ line[Len(line)] = " "

\* tail.endswith(b"# ") or tail.endswith(b"> ") or tail.endswith(b"$ ")
EndsWithPromptCharSpace(line) ==
    /\ Len(line) >= 2
    /\ line[Len(line)] = " "
    /\ line[Len(line) - 1] \in PromptChars

\* buf.splitlines()[-1] if buf.splitlines() else b""
LastLine(buf) == IF buf = <<>> THEN <<>> ELSE buf[Len(buf)]

\* the heuristic that ends the burst of reads
LooksLikePrompt(tail) ==
    EndsWithPromptChar(rstrip(tail)) \/ EndsWithPromptCharSpace(tail)

\* any(ch in last for ch in (b"#", b">", b"$"))
HoldsPromptChar(line) == \E k \in DOMAIN line : line[k] \in PromptChars

\* "Decide prompt": the value _detect_prompt leaves in prompt_bytes
DecidePrompt(buf) ==
    LET last == LastLine(buf)
        norm == IF EndsWithPromptChar(rstrip(last)) /\ ~EndsWithSpace(last)
                THEN Append(last, " ")
                ELSE last
    IN IF last # <<>> /\ HoldsPromptChar(norm) THEN norm ELSE <<>>

\* self._writer.write(b"\n"); await self._writer.drain()
DetectNudge ==
    /\ dp_pc = "nudge"
    /\ dp_nudges' = dp_nudges + 1
    /\ dp_pc' = "burst"
    /\ UNCHANGED <<dp_reads, dp_buf, dp_prompt, dp_exec>>
    /\ SameBut("det")

\* the burst has ended: decide the prompt and return to open's caller
Decided(buf) ==
    /\ dp_prompt' = DecidePrompt(buf)
    /\ dp_pc' = "ready"

\* one readline of the burst: it times out, returns nothing (EOF), or
\* returns a line; the last of the five reads, or a line that looks like a
\* prompt, ends the burst
DetectRead ==
    /\ dp_pc = "burst"
    /\ dp_reads < DetectReads
    /\ dp_reads' = dp_reads + 1
    /\ \/ \* asyncio.TimeoutError, or an empty chunk
          /\ Decided(dp_buf)
          /\ UNCHANGED dp_buf
       \/ \E line \in DetectLines :
            /\ dp_buf' = Append(dp_buf, line)
            /\ IF LooksLikePrompt(line) \/ dp_reads + 1 = DetectReads
               THEN Decided(dp_buf')
               ELSE UNCHANGED <<dp_pc, dp_prompt>>
    /\ UNCHANGED <<dp_nudges, dp_exec>>
    /\ SameBut("det")

\* exec(cmd): write the command, then readuntil(prompt_bytes) when a prompt
\* is known and readline() otherwise
DetectExec ==
    /\ dp_pc = "ready"
    /\ Len(dp_exec) < MaxDetCmds
    /\ dp_exec' = Append(dp_exec, IF dp_prompt # <<>> THEN "readuntil" ELSE "readline")
    /\ UNCHANGED <<dp_pc, dp_nudges, dp_reads, dp_buf, dp_prompt>>
    /\ SameBut("det")

DetNext ==
    \/ DetectNudge
    \/ DetectRead
    \/ DetectExec

SpecDetect == DetInit /\ [][DetNext]_vars

\* a line ending in '#', '>' or '$', optionally followed by one space
IsPromptMarker(m) ==
    \/ EndsWithPromptChar(m)
    \/ EndsWithPromptCharSpace(m)

\* C25 (as stated): prompt auto-detection sends one bare newline, performs
\* at most 5 short reads, and ends in one of two states: a prompt marker
\* that is the last line received (with one space appended when it has
\* none) and ends in '#', '>' or '$' optionally followed by one space, or
\* no marker, in which case each later command's output is read one line at
\* a time.
C25_PromptMarkerOrLineReads ==
    /\ dp_reads <= DetectReads
    /\ dp_pc = "ready" =>
          /\ dp_nudges = 1
          /\ \/ /\ dp_prompt # <<>>
                /\ dp_prompt \in {LastLine(dp_buf), Append(LastLine(dp_buf), " ")}
                /\ IsPromptMarker(dp_prompt)
                /\ \A k \in DOMAIN dp_exec : dp_exec[k] = "readuntil"
             \/ /\ dp_prompt = <<>>
                /\ \A k \in DOMAIN dp_exec : dp_exec[k] = "readline"

(***************************************************************************)
(* The results of mass-config's run mode.                                  *)
(***************************************************************************)
ResultsOfSite(s) == {i \in DOMAIN ma_results : ma_results[i].site = s}

\* C26 (as stated): in mass-config run mode a failure for one site
\* (unresolvable credentials, connection, upload or import error) is
\* recorded as that site's failed result and does not stop the others: no
\* exception leaves a site's task or the collecting loop, and the run has
\* exactly one (site, ok, message) result for every selected site before it
\* reports the ok/failed counts.
C26_FailureIsThatSitesResult ==
    /\ ma_main # "crashed"
    /\ \A s \in DOMAIN ma_pc :
          /\ ma_pc[s] # "raised"
          /\ ma_pc[s] = "returned" => ma_result[s] # NoResult
    /\ \A s \in DOMAIN ma_pc : Cardinality(ResultsOfSite(s)) <= 1
    /\ ma_main \in {"exit 2", "complete"} =>
          \A s \in DOMAIN ma_pc : Cardinality(ResultsOfSite(s)) = 1

(***************************************************************************)
(* SpecSimple: run_many_simple(items, worker).  The worker is any async    *)
(* callable; what matters to one() is which call forms its signature       *)
(* accepts and what its body does.                                         *)
(*   "item"           async def worker(item)                               *)
(*   "item, progress" async def worker(item, progress)                     *)
(*   "item, progress=None"  async def worker(item, progress=None)          *)
(***************************************************************************)
MaxItems == 2

Items == 1..MaxItems

WorkerSignatures == {"item", "item, progress", "item, progress=None"}

\* worker(item, sp) binds its arguments
AcceptsProgress(sig) == sig # "item"

\* worker(item) binds its arguments
AcceptsItemAlone(sig) == sig # "item, progress"

\* what a run of the worker body does
BodyOutcomes == {"returned", "TypeError", "Error"}

SimpleInit ==
    /\ rs_args \in [concurrency : 0..MaxConcurrency, show_progress : BOOLEAN,
                    worker : WorkerSignatures]
    /\ rs_sem = SemSize(rs_args.concurrency)
    /\ rs_pool = NewPool(rs_args.concurrency, rs_args.show_progress)
    /\ rs_pc = [i \in Items |-> "new"]
    /\ rs_sp = [i \in Items |-> 0]
    /\ rs_runs = [i \in Items |-> <<>>]
    /\ rs_ret = [i \in Items |-> "none"]
    /\ rs_doneq = <<>>
    /\ rs_results = <<>>
    /\ rs_main = "run"
    /\ IdleBut("simple")

\* one() ends: sp.done, `return res` or `return e`, mgr.release in the
\* finally block, and the permit goes back
SimpleEnds(i, value) ==
    /\ rs_ret' = [rs_ret EXCEPT ![i] = value]
    /\ rs_pool' = Released(rs_pool, rs_sp[i])
    /\ rs_sp' = [rs_sp EXCEPT ![i] = 0]
    /\ rs_sem' = rs_sem + 1
    /\ rs_pc' = [rs_pc EXCEPT ![i] = "done"]
    /\ rs_doneq' = Append(rs_doneq, i)

\* async with sem; sp = await mgr.acquire(); then worker(item, sp), and on
\* a TypeError of that call worker(item): the worker body starts with or
\* without the progress object
SimpleStart(i) ==
    /\ rs_main = "run"
    /\ rs_pc[i] = "new"
    /\ rs_sem > 0
    /\ LET s == IF rs_args.show_progress THEN FirstIdle(rs_pool) ELSE NullObject
       IN /\ s # 0
          /\ rs_sem' = rs_sem - 1
          /\ rs_sp' = [rs_sp EXCEPT ![i] = s]
          /\ rs_pool' = Taken(rs_pool, s)
          /\ rs_pc' = [rs_pc EXCEPT ![i] =
                          IF AcceptsProgress(rs_args.worker) THEN "first" ELSE "second"]
    /\ UNCHANGED <<rs_args, rs_runs, rs_ret, rs_doneq, rs_results, rs_main>>
    /\ SameBut("simple")

\* a TypeError reached `except TypeError`: res = await worker(item)
RetryWithoutProgress(i) ==
    IF AcceptsItemAlone(rs_args.worker)
    THEN /\ rs_pc' = [rs_pc EXCEPT ![i] = "second"]
         /\ UNCHANGED <<rs_sem, rs_pool, rs_sp, rs_ret, rs_doneq>>
    ELSE \* the call itself raises TypeError, caught by `except Exception`
         SimpleEnds(i, "TypeError of the call")

\* the body of the worker runs to its end
SimpleWorker(i) ==
    /\ rs_pc[i] \in {"first", "second"}
    /\ \E o \in BodyOutcomes :
         /\ rs_runs' = [rs_runs EXCEPT ![i] =
                           Append(@, [progress |-> rs_pc[i] = "first", did |-> o])]
         /\ IF o = "returned" THEN SimpleEnds(i, "result")
            ELSE IF o = "TypeError" /\ rs_pc[i] = "first" THEN RetryWithoutProgress(i)
            ELSE SimpleEnds(i, o)
    /\ UNCHANGED <<rs_args, rs_results, rs_main>>
    /\ SameBut("simple")

\* for fut in asyncio.as_completed(coros): results.append(await fut)
SimpleCollect ==
    /\ rs_main = "run"
    /\ rs_doneq # <<>>
    /\ rs_results' = Append(rs_results,
                            [item |-> Head(rs_doneq), value |-> rs_ret[Head(rs_doneq)]])
    /\ rs_doneq' = Tail(rs_doneq)
    /\ UNCHANGED <<rs_args, rs_sem, rs_pool, rs_pc, rs_sp, rs_runs, rs_ret, rs_main>>
    /\ SameBut("simple")

\* return results
SimpleReturn ==
    /\ rs_main = "run"
    /\ Len(rs_results) = MaxItems
    /\ rs_main' = "returned"
    /\ UNCHANGED <<rs_args, rs_sem, rs_pool, rs_pc, rs_sp, rs_runs, rs_ret,
                   rs_doneq, rs_results>>
    /\ SameBut("simple")

SimpleNext ==
    \/ \E i \in Items : SimpleStart(i)
    \/ \E i \in Items : SimpleWorker(i)
    \/ SimpleCollect
    \/ SimpleReturn

SpecSimple == SimpleInit /\ [][SimpleNext]_vars

\* what the list should hold for a run of the worker body
ValueOf(run) == IF run.did = "returned" THEN "result" ELSE run.did

\* the type of an element of the list
TypeOfValue(v) == IF v = "TypeError of the call" THEN "TypeError" ELSE v

\* C27 (as stated): in run_many_simple the worker is invoked exactly once
\* for each item, whether it returns or raises, and the returned list has
\* exactly one element per item: the worker's result or the exception it
\* raised (an exception counts as the one raised when it has its type).
C27_WorkerOncePerItem ==
    /\ \A i \in DOMAIN rs_pc :
          /\ Len(rs_runs[i]) <= 1
          /\ rs_pc[i] = "done" =>
                /\ Len(rs_runs[i]) = 1
                /\ TypeOfValue(rs_ret[i]) = ValueOf(rs_runs[i][1])
    /\ rs_main = "returned" =>
          /\ Len(rs_results) = MaxItems
          /\ \A i \in DOMAIN rs_pc :
                \E k \in DOMAIN rs_results :
                    /\ rs_results[k].item = i
                    /\ TypeOfValue(rs_results[k].value) = ValueOf(rs_runs[i][1])
                    /\ \A j \in DOMAIN rs_results : rs_results[j].item = i => j = k

(***************************************************************************)
(* The recordings of the dump folder across move_cx_files.                 *)
(***************************************************************************)
\* the recording f of the dump folder is in the dump folder, or its full
\* copy is at its destination path
Kept(f) == f \in cl_tree.src \/ f \in cl_tree.cur_new

\* C28: move_cx_files never loses or overwrites a recording: in every
\* state each file that was in the dump folder at the start is present in
\* the dump folder or at its destination path (the source copy is removed
\* only after the destination copy exists), and a file that already exists
\* at a destination path is never replaced.
C28_NoRecordingLostOrReplaced ==
    /\ [](cl_pc # "idle" =>
            /\ \A f \in cl_tree0.src : Kept(f)
            /\ cl_tree0.cur_files \subseteq cl_tree.cur_files
            /\ cl_tree.cur_new \cap cl_tree0.cur_files = {})
    /\ [][ \A f \in cl_tree.src \ cl_tree'.src :
              /\ f \in cl_tree'.cur_new
              /\ cl_pc = "unlink" => f \in cl_tree.cur_new ]_vars

\* the fallback has put the copy of one recording and has yet to remove
\* its source, after another recording was left in the dump folder because
\* its destination exists
C28_Witness ==
    /\ cl_pc = "unlink"
    /\ ~cl_args.dry_run
    /\ cl_counts.skipped = 1
    /\ Head(cl_todo) \in cl_tree.src \cap cl_tree.cur_new
    /\ cl_tree0.cur_files # {}

(***************************************************************************)
(* SpecCollect: _collect_one_blocking past the export, on one device: the  *)
(* pull of log.N.txt, Hashlog.N.txt and Changelog.N.txt, their removal,    *)
(* and the hotspot pull.  The function runs in a worker thread; each SFTP  *)
(* or SSH call is a step.  A file is its prefix and its number.            *)
(***************************************************************************)
\* range(0, 100), scaled down: the log numbers are 0..MaxLogIndex
MaxLogIndex == 0

LogIndexes == 0..MaxLogIndex

File(prefix, n) == [prefix |-> prefix, n |-> n]

HashLogFiles == {File(p, n) : p \in {"log", "Hashlog"}, n \in LogIndexes}
ChangelogFiles == {File("Changelog", n) : n \in LogIndexes}
HotspotFiles == {File("hotspot/login.html", 0), File("hotspot/log.0.txt", 0)}
OtherFiles == {File("backup.rsc", 0)}

DeviceFiles == HashLogFiles \cup ChangelogFiles \cup HotspotFiles \cup OtherFiles

\* the entries of the device's root directory
RootNames(files) == files \ HotspotFiles

CollectInit ==
    /\ dc_args \in [delete_remote_logs : BOOLEAN, backup : BOOLEAN]
    /\ dc_files \in SUBSET DeviceFiles
    /\ dc_pc = "list"
    /\ dc_names = {}
    /\ dc_todo = <<>>
    /\ dc_read = {}
    /\ dc_present = <<>>
    /\ dc_removed = {}
    /\ IdleBut("col")

\* for i in range(0, 100): for prefix in ("log", "Hashlog"), keeping the
\* names of the listing
RECURSIVE HashLogOrder(_, _)
HashLogOrder(i, names) ==
    IF i > MaxLogIndex THEN <<>>
    ELSE SelectSeq(<<File("log", i), File("Hashlog", i)>>, LAMBDA f : f \in names)
         \o HashLogOrder(i + 1, names)

\* for i in range(0, 100): Changelog.i.txt, keeping the names of the listing
RECURSIVE ChangelogOrder(_, _)
ChangelogOrder(i, names) ==
    IF i > MaxLogIndex THEN <<>>
    ELSE SelectSeq(<<File("Changelog", i)>>, LAMBDA f : f \in names)
         \o ChangelogOrder(i + 1, names)

\* if dev.has_role("backup"): names = set(sftp.listdir(".")), or the empty
\* set when the listing raised
CollectList ==
    /\ dc_pc = "list"
    /\ IF ~dc_args.backup
       THEN /\ dc_pc' = "returned"
            /\ UNCHANGED <<dc_names, dc_todo>>
       ELSE \E names \in {RootNames(dc_files), {}} :
              /\ dc_names' = names
              /\ dc_todo' = HashLogOrder(0, names)
              /\ dc_pc' = "hash"
    /\ UNCHANGED <<dc_args, dc_files, dc_read, dc_present, dc_removed>>
    /\ SameBut("col")

\* every read is listed for removal, whether or not it succeeded
PresentAfterListing(present, f, ok) == Append(present, f)

\* present_for_delete.append(fname) follows the read inside the try
PresentAfterRead(present, f, ok) == IF ok THEN Append(present, f) ELSE present

\* hash_logs[fname] = _sftp_read_bytes(sftp, fname), or the same for
\* changelog_logs: the read returns the content or raises
CollectRead ==
    /\ dc_pc \in {"hash", "changelog"}
    /\ dc_todo # <<>>
    /\ LET f == Head(dc_todo)
       IN \E ok \in BOOLEAN :
            /\ ok => f \in dc_files
            /\ dc_read' = IF ok THEN dc_read \cup {f} ELSE dc_read
            /\ dc_present' = PresentAfterRead(dc_present, f, ok)
    /\ dc_todo' = Tail(dc_todo)
    /\ UNCHANGED <<dc_args, dc_files, dc_pc, dc_names, dc_removed>>
    /\ SameBut("col")

\* a loop is exhausted: on to the Changelog loop, to the removal loop when
\* delete_remote_logs is set, and to the hotspot pull
CollectLoopEnds ==
    /\ dc_pc \in {"hash", "changelog", "delete"}
    /\ dc_todo = <<>>
    /\ IF dc_pc = "hash"
       THEN /\ dc_pc' = "changelog"
            /\ dc_todo' = ChangelogOrder(0, dc_names)
       ELSE IF dc_pc = "changelog" /\ dc_args.delete_remote_logs
       THEN /\ dc_pc' = "delete"
            /\ dc_todo' = dc_present
       ELSE /\ dc_pc' = "hotspot"
            /\ UNCHANGED dc_todo
    /\ UNCHANGED <<dc_args, dc_files, dc_names, dc_read, dc_present, dc_removed>>
    /\ SameBut("col")

\* /file remove [ find name="<name>" ]
RouterOSFind(files, f) == {g \in files : g = f}

\* _try_remove_ros_file(ssh, sftp, fname): sftp.remove, on a raise the
\* RouterOS command, on a raise of both nothing
CollectRemove ==
    /\ dc_pc = "delete"
    /\ dc_todo # <<>>
    /\ LET f == Head(dc_todo)
       IN \E gone \in {IF f \in dc_files THEN {f} ELSE {}, RouterOSFind(dc_files, f), {}} :
            /\ dc_files' = dc_files \ gone
            /\ dc_removed' = dc_removed \cup gone
    /\ dc_todo' = Tail(dc_todo)
    /\ UNCHANGED <<dc_args, dc_pc, dc_names, dc_read, dc_present>>
    /\ SameBut("col")

\* _find_hotspot_base and _sftp_walk_read_all_files: the hotspot files that
\* could be read, nothing removed; then return
CollectHotspot ==
    /\ dc_pc = "hotspot"
    /\ \E got \in SUBSET (dc_files \cap HotspotFiles) :
         dc_read' = dc_read \cup got
    /\ dc_pc' = "returned"
    /\ UNCHANGED <<dc_args, dc_files, dc_names, dc_todo, dc_present, dc_removed>>
    /\ SameBut("col")

ColNext ==
    \/ CollectList
    \/ CollectRead
    \/ CollectLoopEnds
    \/ CollectRemove
    \/ CollectHotspot

SpecCollect == CollectInit /\ [][ColNext]_vars

\* C29: in daily-export a remote log file (log.N.txt, Hashlog.N.txt,
\* Changelog.N.txt) is deleted from the device only if its content was read
\* successfully in the same run and remote-log deletion is enabled, and no
\* hotspot file (nor any other file) is ever deleted.
C29_DeletesOnlyLogsItRead ==
    /\ [](\A f \in dc_removed :
             /\ f \in HashLogFiles \cup ChangelogFiles
             /\ f \in dc_read
             /\ dc_args.delete_remote_logs)
    /\ [](dc_files \cap (HotspotFiles \cup OtherFiles) \cap dc_removed = {})
    /\ [][ /\ dc_files' \subseteq dc_files
           /\ dc_removed' = dc_removed \cup (dc_files \ dc_files') ]_vars

\* a run with deletion enabled that removed a log it had read, kept a log
\* whose read had failed, and read a hotspot file that is still there
C29_Witness ==
    /\ dc_pc = "returned"
    /\ dc_args.delete_remote_logs
    /\ File("Hashlog", 0) \in dc_removed
    /\ File("log", 0) \in (dc_names \cap dc_files) \ dc_read
    /\ File("hotspot/log.0.txt", 0) \in dc_read \cap dc_files

(***************************************************************************)
(* Permits and progress slots of run_many.                                 *)
(***************************************************************************)
BusySlots == {k \in DOMAIN pool : pool[k].busy}

\* the tasks that hold a permit and a slot they have not yet released
SlotHolders == {t \in Sites : pc[t] \in {"call", "rows"} /\ sp[t] > 0}

\* the tasks that hold a permit and are about to scan the pool
Scanning == {t \in Sites : pc[t] = "acquire"}

\* C30: with progress enabled, a task that holds a semaphore permit always
\* finds an idle progress slot on its first scan: the number of busy slots
\* never exceeds the number of permit-holding tasks that have already
\* acquired a slot, which is below the pool size while a task is scanning,
\* so acquire never has to sleep and retry.
C30_AcquireFindsIdleSlot ==
    show_progress =>
        /\ Cardinality(BusySlots) <= Cardinality(SlotHolders)
        /\ Cardinality(SlotHolders) + Cardinality(Scanning) <= Len(pool)
        /\ Scanning # {} =>
              /\ Cardinality(SlotHolders) < Len(pool)
              /\ FirstIdle(pool) # 0

\* a task scans the pool while every other permit and slot is taken and a
\* task waits on the semaphore
C30_Witness ==
    /\ show_progress
    /\ concurrency = MaxConcurrency
    /\ Scanning # {}
    /\ Cardinality(SlotHolders) = Len(pool) - 1
    /\ waiters # <<>>

=============================================================================
